---------------------------- MODULE Spec2Model ----------------------------
(***************************************************************************)
(* A model of the Matho dual slope generator (src/src/Matho.cpp).          *)
(*                                                                         *)
(* One action, Process, is one call of Matho::process: the freeze          *)
(* handling, the clock, processSlope for channel A and for channel B, the  *)
(* outputs and the combiner.  The C++ floats are modelled by exact         *)
(* rationals <<numerator, denominator>> in lowest terms (denominator > 0), *)
(* so the model follows the code's arithmetic but not its rounding; the    *)
(* combiner is modelled a second time with single-precision rounding.  The *)
(* plugin's other module, the Comparally window comparator                 *)
(* (src/src/Comparally.cpp), is modelled by the action ComparallyProcess.  *)
(***************************************************************************)
EXTENDS Integers, Sequences, FiniteSets, TLC

VARIABLES
    params,             \* Module::params: knob and switch values
    inputs,             \* Module::inputs: [connected, voltage] per port
    sampleTime,         \* ProcessArgs::sampleTime of the last process call
    slopeA,             \* aPhase, aValue, ..., syncPeriodA (the channel A fields)
    slopeB,             \* bPhase, bValue, ..., syncPeriodB (the channel B fields)
    freezeAState,
    freezeBState,
    prevFreezeAButton,  \* function-static in process()
    prevFreezeBButton,  \* function-static in process()
    currentTime,
    prevAValue,
    prevBValue,
    outputs,            \* Module::outputs: the voltage set on each port
    lights,             \* Module::lights: the brightness set on each light
    localsA,            \* processSlope's locals in the last call for channel A
    localsB,            \* processSlope's locals in the last call for channel B
    watchA,             \* history: the uninterrupted cycle of channel A under way
    trail,              \* history: channel A's (rising, phase, value) after each tick
    peer,               \* a second Matho instance: its freeze buttons and freeze flags
    probe,              \* a call of a pure function: its arguments and its result
    comparally          \* a Comparally instance: its params, inputs, fields, outputs

vars == <<params, inputs, sampleTime, slopeA, slopeB, freezeAState, freezeBState,
          prevFreezeAButton, prevFreezeBButton, currentTime, prevAValue,
          prevBValue, outputs, lights, localsA, localsB, watchA, trail, peer, probe, comparally>>

---------------------------------------------------------------------------
(* Exact rational arithmetic standing for the float operations.            *)

RECURSIVE GCD(_, _)
GCD(a, b) == IF b = 0 THEN a ELSE GCD(b, a % b)

Abs(n) == IF n < 0 THEN -n ELSE n

\* n/d in lowest terms, d > 0
Q(n, d) ==
    LET g == GCD(Abs(n), d)
    IN  <<n \div g, d \div g>>

Zero == <<0, 1>>
One == <<1, 1>>

QInt(n) == <<n, 1>>
\* operands stay in lowest terms, so common factors are cancelled before multiplying
QAdd(x, y) ==
    LET g == GCD(x[2], y[2])
    IN  Q(x[1] * (y[2] \div g) + y[1] * (x[2] \div g), (x[2] \div g) * y[2])
QNeg(x) == <<-x[1], x[2]>>
QSub(x, y) == QAdd(x, QNeg(y))
QMul(x, y) ==
    LET g == GCD(Abs(x[1]), y[2])
        h == GCD(Abs(y[1]), x[2])
    IN  Q((x[1] \div g) * (y[1] \div h), (x[2] \div h) * (y[2] \div g))
\* x / y for y # 0
QDiv(x, y) ==
    CASE y[1] > 0 -> QMul(x, <<y[2], y[1]>>)
      [] y[1] < 0 -> QMul(x, <<-y[2], -y[1]>>)
QLt(x, y) ==
    LET g == GCD(x[2], y[2])
    IN  x[1] * (y[2] \div g) < y[1] * (x[2] \div g)
QLe(x, y) ==
    LET g == GCD(x[2], y[2])
    IN  x[1] * (y[2] \div g) <= y[1] * (x[2] \div g)
QMin(x, y) == IF QLt(y, x) THEN y ELSE x
QMax(x, y) == IF QLt(x, y) THEN y ELSE x

\* rack::math::clamp(x, a, b) == fmax(fmin(x, b), a)
clamp(x, a, b) == QMax(QMin(x, b), a)

\* (int) of a non-negative float: truncation
ToInt(x) == x[1] \div x[2]

\* pow(x, k) for an integral exponent k >= 0
RECURSIVE QPowN(_, _)
QPowN(x, k) == IF k = 0 THEN One ELSE QMul(x, QPowN(x, k - 1))

\* pow(x, e) for x >= 0: exact where the result is rational (an integral
\* exponent, or a base of 0 or 1)
pow(x, e) ==
    CASE e[2] = 1 -> QPowN(x, e[1])
      [] e[2] # 1 /\ x = Zero -> Zero
      [] e[2] # 1 /\ x = One -> One

---------------------------------------------------------------------------
(* Names of the module's params, inputs, outputs and lights.               *)

ParamIds == {"A_RISE_PARAM", "A_FALL_PARAM", "A_CURVE_PARAM", "A_BREAKPOINT_PARAM",
             "A_RATE_PARAM", "B_RISE_PARAM", "B_FALL_PARAM", "B_CURVE_PARAM",
             "B_BREAKPOINT_PARAM", "B_RATE_PARAM", "MIX_PARAM", "CHAOS_A_PARAM",
             "CHAOS_B_PARAM", "FREEZE_A_BUTTON_PARAM", "FREEZE_B_BUTTON_PARAM",
             "PROBABILITY_PARAM", "A_CYCLE_PARAM", "B_CYCLE_PARAM",
             "A_TRIG_MODE_PARAM", "B_TRIG_MODE_PARAM"}

InputIds == {"A_TRIG_INPUT", "A_RISE_CV_INPUT", "A_FALL_CV_INPUT", "A_CURVE_CV_INPUT",
             "A_BREAKPOINT_CV_INPUT", "A_RATE_CV_INPUT", "B_TRIG_INPUT",
             "B_RISE_CV_INPUT", "B_FALL_CV_INPUT", "B_CURVE_CV_INPUT",
             "B_BREAKPOINT_CV_INPUT", "B_RATE_CV_INPUT", "CHAOS_A_CV_INPUT",
             "CHAOS_B_CV_INPUT", "FREEZE_A_CV_INPUT", "FREEZE_B_CV_INPUT",
             "A_SYNC_INPUT", "B_SYNC_INPUT"}

OutputIds == {"A_SLOPE_OUTPUT", "A_END_OUTPUT", "A_PULSE_OUTPUT", "A_BREAKPOINT_OUTPUT",
              "A_DERIVATIVE_OUTPUT", "A_INTEGRAL_OUTPUT", "B_SLOPE_OUTPUT",
              "B_END_OUTPUT", "B_PULSE_OUTPUT", "B_BREAKPOINT_OUTPUT",
              "B_DERIVATIVE_OUTPUT", "B_INTEGRAL_OUTPUT", "MIX_OUTPUT", "MIN_OUTPUT",
              "MAX_OUTPUT", "SUM_OUTPUT"}

LightIds == {"A_ACTIVE_LIGHT", "A_END_LIGHT", "A_BREAKPOINT_LIGHT", "B_ACTIVE_LIGHT",
             "B_END_LIGHT", "B_BREAKPOINT_LIGHT", "CHAOS_A_LIGHT", "CHAOS_B_LIGHT",
             "FREEZE_A_LIGHT", "FREEZE_B_LIGHT"}

\* Channel A's ids with channel B's rate CV input in place of its own
IdsARateFromB ==
    [trigInput |-> "A_TRIG_INPUT", riseParam |-> "A_RISE_PARAM",
     fallParam |-> "A_FALL_PARAM", curveParam |-> "A_CURVE_PARAM",
     breakpointParam |-> "A_BREAKPOINT_PARAM", rateParam |-> "A_RATE_PARAM",
     riseCvInput |-> "A_RISE_CV_INPUT", fallCvInput |-> "A_FALL_CV_INPUT",
     curveCvInput |-> "A_CURVE_CV_INPUT",
     breakpointCvInput |-> "A_BREAKPOINT_CV_INPUT",
     rateCvInput |-> "B_RATE_CV_INPUT", cycleParam |-> "A_CYCLE_PARAM",
     syncInput |-> "A_SYNC_INPUT", trigModeParam |-> "A_TRIG_MODE_PARAM",
     activeLight |-> "A_ACTIVE_LIGHT", endLight |-> "A_END_LIGHT",
     breakpointLight |-> "A_BREAKPOINT_LIGHT"]

\* The arguments process() passes to processSlope for channel A and channel B
IdsA == [trigInput |-> "A_TRIG_INPUT", riseParam |-> "A_RISE_PARAM",
         fallParam |-> "A_FALL_PARAM", curveParam |-> "A_CURVE_PARAM",
         breakpointParam |-> "A_BREAKPOINT_PARAM", rateParam |-> "A_RATE_PARAM",
         riseCvInput |-> "A_RISE_CV_INPUT", fallCvInput |-> "A_FALL_CV_INPUT",
         curveCvInput |-> "A_CURVE_CV_INPUT",
         breakpointCvInput |-> "A_BREAKPOINT_CV_INPUT",
         rateCvInput |-> "A_RATE_CV_INPUT", cycleParam |-> "A_CYCLE_PARAM",
         syncInput |-> "A_SYNC_INPUT", trigModeParam |-> "A_TRIG_MODE_PARAM",
         activeLight |-> "A_ACTIVE_LIGHT", endLight |-> "A_END_LIGHT",
         breakpointLight |-> "A_BREAKPOINT_LIGHT"]

IdsB == [trigInput |-> "B_TRIG_INPUT", riseParam |-> "B_RISE_PARAM",
         fallParam |-> "B_FALL_PARAM", curveParam |-> "B_CURVE_PARAM",
         breakpointParam |-> "B_BREAKPOINT_PARAM", rateParam |-> "B_RATE_PARAM",
         riseCvInput |-> "B_RISE_CV_INPUT", fallCvInput |-> "B_FALL_CV_INPUT",
         curveCvInput |-> "B_CURVE_CV_INPUT",
         breakpointCvInput |-> "B_BREAKPOINT_CV_INPUT",
         rateCvInput |-> "B_RATE_CV_INPUT", cycleParam |-> "B_CYCLE_PARAM",
         syncInput |-> "B_SYNC_INPUT", trigModeParam |-> "B_TRIG_MODE_PARAM",
         activeLight |-> "B_ACTIVE_LIGHT", endLight |-> "B_END_LIGHT",
         breakpointLight |-> "B_BREAKPOINT_LIGHT"]

\* configParam / configSwitch defaults
DefaultParams ==
    [p \in ParamIds |->
        IF p \in {"A_RISE_PARAM", "A_FALL_PARAM", "A_BREAKPOINT_PARAM", "A_RATE_PARAM",
                  "B_RISE_PARAM", "B_FALL_PARAM", "B_BREAKPOINT_PARAM", "B_RATE_PARAM",
                  "MIX_PARAM"} THEN Q(1, 2)
        ELSE IF p = "PROBABILITY_PARAM" THEN One
        ELSE Zero]

\* An input port with no cable reads 0 V
Unplugged == [connected |-> FALSE, voltage |-> Zero]
Cable(v) == [connected |-> TRUE, voltage |-> v]

---------------------------------------------------------------------------
(* Matho::processSlope, in the order of its statements.                    *)

\* (random::uniform() - 0.5f) * 2.0f for a draw u of random::uniform()
ChaosDraw(u) == QMul(QSub(u, Q(1, 2)), QInt(2))

\* inputs[id].getVoltage() > 0.5f
High(port) == QLt(Q(1, 2), port.voltage)

\* A disconnected reset that also forgets the sync measurement
DisconnectResetForgetsSync(s, connected) ==
    IF connected THEN s
    ELSE [s EXCEPT !.prevTrigger = FALSE, !.phase = Zero, !.rising = TRUE,
                   !.value = Zero, !.derivative = Zero, !.integral = Zero,
                   !.endPulse = FALSE, !.breakpointPulse = FALSE,
                   !.prevSync = FALSE, !.lastSyncTime = Zero]

\* if (!inputs[trigInput].isConnected()) { ... }
DisconnectReset(s, connected) ==
    IF connected THEN s
    ELSE [s EXCEPT !.prevTrigger = FALSE, !.phase = Zero, !.rising = TRUE,
                   !.value = Zero, !.derivative = Zero, !.integral = Zero,
                   !.endPulse = FALSE, !.breakpointPulse = FALSE]

\* A gate whose mode 3 forgets the completion test (phase >= 1)
ModeAcceptsAnyFall(trigMode, rising, phase) ==
    trigMode = 0 \/ (trigMode = 1 /\ rising /\ QLt(phase, One)) \/ (trigMode \in {2, 3} /\ ~rising)

\* switch (trigMode): triggerAccepted stays false for a mode outside 0..3
ModeAccepts(trigMode, rising, phase) ==
    CASE trigMode = 0 -> TRUE
      [] trigMode = 1 -> rising /\ QLt(phase, One)
      [] trigMode = 2 -> ~rising /\ QLt(phase, One)
      [] trigMode = 3 -> ~rising /\ QLe(One, phase)
      [] OTHER -> FALSE

\* triggerAccepted after the edge test and the mode switch
TriggerAccepted(s, currentTrigger, trigMode) ==
    currentTrigger /\ ~s.prevTrigger /\ ModeAccepts(trigMode, s.rising, s.phase)

\* A restart that also empties the integral
RestartZeroesIntegral(s, u) ==
    [s EXCEPT !.phase = Zero, !.rising = TRUE, !.value = Zero,
              !.chaosMod = ChaosDraw(u), !.integral = Zero]

\* A restart that also clears the breakpoint latch
RestartClearsBreakpoint(s, u) ==
    [s EXCEPT !.phase = Zero, !.rising = TRUE, !.value = Zero,
              !.chaosMod = ChaosDraw(u), !.breakpointPulse = FALSE]

\* phase = 0; rising = true; value = 0; chaosMod = new draw
Restart(s, u) ==
    [s EXCEPT !.phase = Zero, !.rising = TRUE, !.value = Zero,
              !.chaosMod = ChaosDraw(u)]

\* A trigger block that restarts on every rising edge, accepted or not
TriggerStepEveryEdge(s, currentTrigger, trigMode, u) ==
    LET s1 == IF currentTrigger /\ ~s.prevTrigger THEN Restart(s, u) ELSE s
    IN  [s1 EXCEPT !.prevTrigger = currentTrigger]

\* A trigger block whose memory never falls back to low
TriggerStepHoldsHigh(s, currentTrigger, trigMode, u) ==
    LET s1 == IF TriggerAccepted(s, currentTrigger, trigMode) THEN Restart(s, u) ELSE s
    IN  [s1 EXCEPT !.prevTrigger = currentTrigger \/ s.prevTrigger]

\* the trigger block, from the edge test to prevTrigger = currentTrigger
TriggerStep(s, currentTrigger, trigMode, u) ==
    LET s1 == IF TriggerAccepted(s, currentTrigger, trigMode) THEN Restart(s, u) ELSE s
    IN  [s1 EXCEPT !.prevTrigger = currentTrigger]

\* A sync edge test that sees an edge during the fall only
SyncEdgeInFallOnly(s, syncEnabled, currentSync) ==
    syncEnabled /\ currentSync /\ ~s.prevSync /\ ~s.rising

\* syncEnabled && currentSync && !prevSync, after the disconnected reset of prevSync
SyncEdge(s, syncEnabled, currentSync) ==
    syncEnabled /\ currentSync /\ ~(IF syncEnabled THEN s.prevSync ELSE FALSE)

\* A period measurement that leaves out the clamp
MeasurePeriodUnclamped(syncPeriod, lastSyncTime, now) ==
    IF QLt(Zero, lastSyncTime) THEN QSub(now, lastSyncTime) ELSE syncPeriod

\* the period measurement of the PLL
MeasurePeriod(syncPeriod, lastSyncTime, now) ==
    IF QLt(Zero, lastSyncTime)
    THEN clamp(QSub(now, lastSyncTime), Q(1, 100), QInt(10))
    ELSE syncPeriod

\* A sync block whose restart also clears the breakpoint latch
SyncStepClearsLatch(s, syncEnabled, currentSync, now, u) ==
    LET s1 == IF SyncEdge(s, syncEnabled, currentSync)
              THEN [Restart(s, u) EXCEPT
                        !.syncPeriod = MeasurePeriod(s.syncPeriod, s.lastSyncTime, now),
                        !.lastSyncTime = now,
                        !.breakpointPulse = FALSE]
              ELSE s
    IN  [s1 EXCEPT !.prevSync = currentSync]

\* the sync block, from the disconnected reset to prevSync = currentSync
SyncStep(s, syncEnabled, currentSync, now, u) ==
    LET s1 == IF SyncEdge(s, syncEnabled, currentSync)
              THEN [Restart(s, u) EXCEPT
                        !.syncPeriod = MeasurePeriod(s.syncPeriod, s.lastSyncTime, now),
                        !.lastSyncTime = now]
              ELSE s
    IN  [s1 EXCEPT !.prevSync = currentSync]

\* the knob-to-seconds mapping of a clamped rise or fall knob value
StageTime(x) ==
    IF QLe(x, Q(1, 2)) THEN QMul(x, QInt(2))
    ELSE QAdd(One, QMul(pow(QMul(QSub(x, Q(1, 2)), QInt(2)), QInt(2)), QInt(4)))

\* A chaos effect that applies the seed in full whatever the amount
ChaosEffectUngated(chaosMod, chaosAmount) == chaosMod

\* chaosEffect = chaosMod * chaosAmount, applied when chaosAmount > 0
ChaosEffect(chaosMod, chaosAmount) ==
    IF QLt(Zero, chaosAmount) THEN QMul(chaosMod, chaosAmount) ELSE Zero

\* rateOffset = (rateValue - 0.5) * 2 + rateCv * 0.2
RateOffset(rateValue, rateCv) ==
    QAdd(QMul(QSub(rateValue, Q(1, 2)), QInt(2)), QMul(rateCv, Q(1, 5)))

\* A riseTime or fallTime clamped from above only
FinalTimeNoFloor(paramValue, chaosEffect, rateOffset) ==
    QMin(QAdd(QMul(StageTime(clamp(paramValue, Zero, One)), QAdd(One, chaosEffect)),
              rateOffset),
         QInt(20))

\* riseTime or fallTime: mapped, chaos-scaled, rate-offset, clamped
FinalTime(paramValue, chaosEffect, rateOffset) ==
    clamp(QAdd(QMul(StageTime(clamp(paramValue, Zero, One)), QAdd(One, chaosEffect)),
               rateOffset),
          Q(1, 1000), QInt(20))

\* A breakpoint clamped to [0, 1] only
BreakpointUpToOne(raw) == clamp(raw, Zero, One)

\* breakpoint after both clamps
Breakpoint(raw) == clamp(clamp(raw, Zero, Q(9999, 10000)), Zero, One)

\* curve after the clamp, the chaos offset and the second clamp
Curve(raw, chaosAmount, chaosEffect) ==
    LET c == clamp(raw, QNeg(One), One)
    IN  IF QLt(Zero, chaosAmount)
        THEN clamp(QAdd(c, QMul(chaosEffect, Q(1, 2))), QNeg(One), One)
        ELSE c

\* An envelope time that takes the rise time in both stages
EnvelopeTimeRiseOnly(rising, riseTime, fallTime, syncEnabled, syncPeriod) ==
    IF syncEnabled /\ QLt(Zero, syncPeriod)
    THEN QMul(riseTime, QDiv(syncPeriod, QAdd(riseTime, fallTime)))
    ELSE riseTime

\* envelopeTime with the sync scaling
EnvelopeTime(rising, riseTime, fallTime, syncEnabled, syncPeriod) ==
    LET envelopeTime == IF rising THEN riseTime ELSE fallTime
    IN  IF syncEnabled /\ QLt(Zero, syncPeriod)
        THEN QMul(envelopeTime, QDiv(syncPeriod, QAdd(riseTime, fallTime)))
        ELSE envelopeTime

\* A breakpoint test that leaves out the latch
BreakpointTriggeredUnlatched(rising, phase, breakpoint, breakpointPulse) ==
    LET cyclePhase == IF rising THEN phase ELSE QAdd(One, phase)
        breakpointPhase == QMul(breakpoint, QInt(2))
    IN  QLe(breakpointPhase, cyclePhase)

\* cyclePhase >= breakpointPhase && !breakpointPulse
BreakpointTriggered(rising, phase, breakpoint, breakpointPulse) ==
    LET cyclePhase == IF rising THEN phase ELSE QAdd(One, phase)
        breakpointPhase == QMul(breakpoint, QInt(2))
    IN  QLe(breakpointPhase, cyclePhase) /\ ~breakpointPulse

\* An end of cycle that restarts whenever cycling is on, sync cable or not
EndOfCycleNoSyncPriority(s, cycleOn, syncEnabled, u) ==
    IF ~QLe(One, s.phase) THEN s
    ELSE IF s.rising
    THEN [s EXCEPT !.rising = FALSE, !.phase = Zero, !.value = One]
    ELSE LET s1 == IF cycleOn
                   THEN [s EXCEPT !.rising = TRUE, !.phase = Zero, !.value = Zero,
                                  !.chaosMod = ChaosDraw(u)]
                   ELSE [s EXCEPT !.phase = One, !.value = Zero]
         IN  [s1 EXCEPT !.endPulse = TRUE, !.breakpointPulse = FALSE]

\* An end of cycle that carries the overshoot of the rise into the fall
EndOfCycleCarriesOver(s, cycleOn, syncEnabled, u) ==
    IF ~QLe(One, s.phase) THEN s
    ELSE IF s.rising
    THEN [s EXCEPT !.rising = FALSE, !.phase = QSub(s.phase, One), !.value = One]
    ELSE LET s1 == IF cycleOn /\ ~syncEnabled
                   THEN [s EXCEPT !.rising = TRUE, !.phase = Zero, !.value = Zero,
                                  !.chaosMod = ChaosDraw(u)]
                   ELSE [s EXCEPT !.phase = One, !.value = Zero]
         IN  [s1 EXCEPT !.endPulse = TRUE, !.breakpointPulse = FALSE]

\* An end of cycle that leaves the overshoot in phase when the fall completes
EndOfCycleNoClamp(s, cycleOn, syncEnabled, u) ==
    IF ~QLe(One, s.phase) THEN s
    ELSE IF s.rising
    THEN [s EXCEPT !.rising = FALSE, !.phase = Zero, !.value = One]
    ELSE LET s1 == IF cycleOn /\ ~syncEnabled
                   THEN [s EXCEPT !.rising = TRUE, !.phase = Zero, !.value = Zero,
                                  !.chaosMod = ChaosDraw(u)]
                   ELSE [s EXCEPT !.value = Zero]
         IN  [s1 EXCEPT !.endPulse = TRUE, !.breakpointPulse = FALSE]

\* An end of cycle that leaves the breakpoint latch as it finds it
EndOfCycleKeepsLatch(s, cycleOn, syncEnabled, u) ==
    IF ~QLe(One, s.phase) THEN s
    ELSE IF s.rising
    THEN [s EXCEPT !.rising = FALSE, !.phase = Zero, !.value = One]
    ELSE LET s1 == IF cycleOn /\ ~syncEnabled
                   THEN [s EXCEPT !.rising = TRUE, !.phase = Zero, !.value = Zero,
                                  !.chaosMod = ChaosDraw(u)]
                   ELSE [s EXCEPT !.phase = One, !.value = Zero]
         IN  [s1 EXCEPT !.endPulse = TRUE]

\* An end of cycle that also draws a new seed at the top of the rise
EndOfCycleRedrawAtPeak(s, cycleOn, syncEnabled, u) ==
    IF ~QLe(One, s.phase) THEN s
    ELSE IF s.rising
    THEN [s EXCEPT !.rising = FALSE, !.phase = Zero, !.value = One,
                   !.chaosMod = ChaosDraw(u)]
    ELSE LET s1 == IF cycleOn /\ ~syncEnabled
                   THEN [s EXCEPT !.rising = TRUE, !.phase = Zero, !.value = Zero,
                                  !.chaosMod = ChaosDraw(u)]
                   ELSE [s EXCEPT !.phase = One, !.value = Zero]
         IN  [s1 EXCEPT !.endPulse = TRUE, !.breakpointPulse = FALSE]

\* if (phase >= 1.0f) { ... }: the end of a stage
EndOfCycle(s, cycleOn, syncEnabled, u) ==
    IF ~QLe(One, s.phase) THEN s
    ELSE IF s.rising
    THEN [s EXCEPT !.rising = FALSE, !.phase = Zero, !.value = One]
    ELSE LET s1 == IF cycleOn /\ ~syncEnabled
                   THEN [s EXCEPT !.rising = TRUE, !.phase = Zero, !.value = Zero,
                                  !.chaosMod = ChaosDraw(u)]
                   ELSE [s EXCEPT !.phase = One, !.value = Zero]
         IN  [s1 EXCEPT !.endPulse = TRUE, !.breakpointPulse = FALSE]

\* An applyCurve whose positive branch raises phase, not 1 - phase
applyCurveUnmirrored(phase, curve) ==
    IF QLt(curve, Zero)
    THEN pow(phase, QAdd(One, QMul(QNeg(curve), QInt(2))))
    ELSE IF QLt(Zero, curve)
    THEN QSub(One, pow(phase, QAdd(One, QMul(curve, QInt(8)))))
    ELSE phase

\* An applyCurve whose positive branch leaves out the "1 -"
applyCurveNoFlip(phase, curve) ==
    IF QLt(curve, Zero)
    THEN pow(phase, QAdd(One, QMul(QNeg(curve), QInt(2))))
    ELSE IF QLt(Zero, curve)
    THEN pow(QSub(One, phase), QAdd(One, QMul(curve, QInt(8))))
    ELSE phase

\* Matho::applyCurve
applyCurve(phase, curve) ==
    IF QLt(curve, Zero)
    THEN pow(phase, QAdd(One, QMul(QNeg(curve), QInt(2))))
    ELSE IF QLt(Zero, curve)
    THEN QSub(One, pow(QSub(One, phase), QAdd(One, QMul(curve, QInt(8)))))
    ELSE phase

\* rawPhase
RawPhase(phase, curve) == IF curve # Zero THEN applyCurve(phase, curve) ELSE phase

\* the derivative expression of processSlope
Derivative(value, rising, rawPhase, deltaTime, now) ==
    LET back == QSub(rawPhase, QDiv(deltaTime, now))
    IN  QDiv(QSub(value, IF rising THEN back ELSE QSub(One, back)), deltaTime)

\* The locals of a processSlope call that the outputs do not show
NoLocals == [triggerEdge |-> FALSE, triggerAccepted |-> FALSE, syncEdge |-> FALSE,
             advanced |-> FALSE,
             envelopeTime |-> Zero, riseTime |-> Zero, fallTime |-> Zero,
             breakpoint |-> Zero, curve |-> Zero,
             breakpointTriggered |-> FALSE, endPulse |-> FALSE]

\* The statements of processSlope after "if (freeze) return;", on the channel
\* state s3 left by the trigger and sync blocks; seen holds the edge tests' results.
Advance(ids, s3, deltaTime, chaosAmount, now, wrapDraw, P, I, seen) ==
    LET syncEnabled == I[ids.syncInput].connected
        chaosEffect == ChaosEffect(s3.chaosMod, chaosAmount)
        rateOffset == RateOffset(P[ids.rateParam], I[ids.rateCvInput].voltage)
        curve == Curve(QAdd(P[ids.curveParam],
                            QMul(I[ids.curveCvInput].voltage, Q(1, 10))),
                       chaosAmount, chaosEffect)
        breakpoint == Breakpoint(QAdd(P[ids.breakpointParam],
                                      QMul(I[ids.breakpointCvInput].voltage,
                                           Q(1, 10))))
        riseTime == FinalTime(QAdd(P[ids.riseParam],
                                   QMul(I[ids.riseCvInput].voltage, Q(1, 10))),
                              chaosEffect, rateOffset)
        fallTime == FinalTime(QAdd(P[ids.fallParam],
                                   QMul(I[ids.fallCvInput].voltage, Q(1, 10))),
                              chaosEffect, rateOffset)
        envelopeTime == EnvelopeTime(s3.rising, riseTime, fallTime, syncEnabled,
                                     s3.syncPeriod)
        phase1 == QAdd(s3.phase, QDiv(deltaTime, envelopeTime))
        breakpointTriggered ==
            BreakpointTriggered(s3.rising, phase1, breakpoint, s3.breakpointPulse)
        s5 == EndOfCycle([s3 EXCEPT !.phase = phase1,
                                    !.breakpointPulse = @ \/ breakpointTriggered],
                         QLt(Q(1, 2), P[ids.cycleParam]), syncEnabled, wrapDraw)
        rawPhase == RawPhase(s5.phase, curve)
        value == IF s5.rising THEN rawPhase ELSE QSub(One, rawPhase)
    IN  [s |-> [s5 EXCEPT
                  !.value = value,
                  !.derivative = Derivative(value, s5.rising, rawPhase, deltaTime, now),
                  !.integral = QAdd(@, QMul(value, deltaTime)),
                  !.endPulse = FALSE],
         locals |-> [triggerEdge |-> seen.triggerEdge,
                     triggerAccepted |-> seen.triggerAccepted,
                     syncEdge |-> seen.syncEdge,
                     advanced |-> TRUE, envelopeTime |-> envelopeTime,
                     riseTime |-> riseTime, fallTime |-> fallTime,
                     breakpoint |-> breakpoint, curve |-> curve,
                     breakpointTriggered |-> breakpointTriggered,
                     endPulse |-> s5.endPulse],
         lights |-> [active |-> value,
                     end |-> IF s5.endPulse THEN One ELSE Zero,
                     breakpoint |-> IF breakpointTriggered THEN One ELSE Zero]]

\* A processSlope without "if (freeze) return;"
ProcessSlopeIgnoringFreeze(ids, s, li, deltaTime, freeze, chaosAmount, now, rnd, P, I) ==
    LET trig == I[ids.trigInput]
        currentTrigger == High(trig)
        trigMode == ToInt(P[ids.trigModeParam])
        syncEnabled == I[ids.syncInput].connected
        currentSync == High(I[ids.syncInput])
        s1 == DisconnectReset(s, trig.connected)
        s2 == TriggerStep(s1, currentTrigger, trigMode, rnd.trigger)
        s3 == SyncStep(s2, syncEnabled, currentSync, now, rnd.sync)
        seen == [NoLocals EXCEPT
                    !.triggerEdge = currentTrigger /\ ~s1.prevTrigger,
                    !.triggerAccepted = TriggerAccepted(s1, currentTrigger, trigMode),
                    !.syncEdge = SyncEdge(s2, syncEnabled, currentSync)]
    IN  Advance(ids, s3, deltaTime, chaosAmount, now, rnd.wrap, P, I, seen)

\* A processSlope that returns on freeze before the trigger and sync blocks
ProcessSlopeFreezeFirst(ids, s, li, deltaTime, freeze, chaosAmount, now, rnd, P, I) ==
    IF freeze
    THEN [s |-> s, locals |-> NoLocals, lights |-> li]
    ELSE ProcessSlopeIgnoringFreeze(ids, s, li, deltaTime, freeze, chaosAmount, now,
                                    rnd, P, I)

\* One call of processSlope for the channel named by ids, on channel state s.
\* P and I are the module's params and inputs, rnd the draws of random::uniform()
\* at the three places that draw, li the channel's three lights before the call.
\* The result is the channel state after the call, the locals, and the lights
\* (set only when the call is not frozen).
ProcessSlope(ids, s, li, deltaTime, freeze, chaosAmount, now, rnd, P, I) ==
    LET trig == I[ids.trigInput]
        currentTrigger == High(trig)
        trigMode == ToInt(P[ids.trigModeParam])
        syncEnabled == I[ids.syncInput].connected
        currentSync == High(I[ids.syncInput])
        s1 == DisconnectReset(s, trig.connected)
        s2 == TriggerStep(s1, currentTrigger, trigMode, rnd.trigger)
        s3 == SyncStep(s2, syncEnabled, currentSync, now, rnd.sync)
        seen == [NoLocals EXCEPT
                    !.triggerEdge = currentTrigger /\ ~s1.prevTrigger,
                    !.triggerAccepted = TriggerAccepted(s1, currentTrigger, trigMode),
                    !.syncEdge = SyncEdge(s2, syncEnabled, currentSync)]
    IN  IF freeze
        THEN [s |-> s3, locals |-> seen, lights |-> li]
        ELSE Advance(ids, s3, deltaTime, chaosAmount, now, rnd.wrap, P, I, seen)

---------------------------------------------------------------------------
(* Matho::process                                                          *)

\* the button toggle: flips on a press that follows a release
FreezeToggle(state, pressed, prevButton) ==
    IF pressed /\ ~prevButton THEN ~state ELSE state

\* A freeze CV override that also freezes at exactly 2 V
FreezeCvInclusive(state, port) ==
    IF ~port.connected THEN state
    ELSE IF QLe(QInt(2), port.voltage) THEN TRUE ELSE FALSE

\* the freeze CV override, applied only with a cable connected
FreezeCv(state, port) ==
    IF ~port.connected THEN state
    ELSE IF QLt(QInt(2), port.voltage) THEN TRUE
    ELSE IF QLt(port.voltage, QInt(2)) THEN FALSE
    ELSE state

\* chaosAAmount / chaosBAmount
ChaosAmount(knob, port) == clamp(QAdd(knob, QMul(port.voltage, Q(1, 10))), Zero, One)

Pulse(b) == IF b THEN QInt(10) ELSE Zero

\* Outputs whose mix weighs channel A by mix and channel B by 1 - mix
OutputsMixSwapped(a, b, mix) ==
    [o \in OutputIds |->
        CASE o = "A_SLOPE_OUTPUT" -> QMul(a.value, QInt(10))
          [] o = "A_END_OUTPUT" -> Pulse(a.endPulse)
          [] o = "A_PULSE_OUTPUT" -> Pulse(a.endPulse)
          [] o = "A_BREAKPOINT_OUTPUT" -> Pulse(a.breakpointPulse)
          [] o = "A_DERIVATIVE_OUTPUT" -> QMul(a.derivative, QInt(5))
          [] o = "A_INTEGRAL_OUTPUT" -> QMul(a.integral, QInt(2))
          [] o = "B_SLOPE_OUTPUT" -> QMul(b.value, QInt(10))
          [] o = "B_END_OUTPUT" -> Pulse(b.endPulse)
          [] o = "B_PULSE_OUTPUT" -> Pulse(b.endPulse)
          [] o = "B_BREAKPOINT_OUTPUT" -> Pulse(b.breakpointPulse)
          [] o = "B_DERIVATIVE_OUTPUT" -> QMul(b.derivative, QInt(5))
          [] o = "B_INTEGRAL_OUTPUT" -> QMul(b.integral, QInt(2))
          [] o = "MIX_OUTPUT" ->
                QMul(QAdd(QMul(a.value, mix), QMul(b.value, QSub(One, mix))), QInt(10))
          [] o = "MIN_OUTPUT" -> QMul(QMin(a.value, b.value), QInt(10))
          [] o = "MAX_OUTPUT" -> QMul(QMax(a.value, b.value), QInt(10))
          [] o = "SUM_OUTPUT" -> QMul(QAdd(a.value, b.value), QInt(10))]

\* the "Set outputs", "Mix outputs" and MIN / MAX / SUM statements
Outputs(a, b, mix) ==
    [o \in OutputIds |->
        CASE o = "A_SLOPE_OUTPUT" -> QMul(a.value, QInt(10))
          [] o = "A_END_OUTPUT" -> Pulse(a.endPulse)
          [] o = "A_PULSE_OUTPUT" -> Pulse(a.endPulse)
          [] o = "A_BREAKPOINT_OUTPUT" -> Pulse(a.breakpointPulse)
          [] o = "A_DERIVATIVE_OUTPUT" -> QMul(a.derivative, QInt(5))
          [] o = "A_INTEGRAL_OUTPUT" -> QMul(a.integral, QInt(2))
          [] o = "B_SLOPE_OUTPUT" -> QMul(b.value, QInt(10))
          [] o = "B_END_OUTPUT" -> Pulse(b.endPulse)
          [] o = "B_PULSE_OUTPUT" -> Pulse(b.endPulse)
          [] o = "B_BREAKPOINT_OUTPUT" -> Pulse(b.breakpointPulse)
          [] o = "B_DERIVATIVE_OUTPUT" -> QMul(b.derivative, QInt(5))
          [] o = "B_INTEGRAL_OUTPUT" -> QMul(b.integral, QInt(2))
          [] o = "MIX_OUTPUT" ->
                QMul(QAdd(QMul(a.value, QSub(One, mix)), QMul(b.value, mix)), QInt(10))
          [] o = "MIN_OUTPUT" -> QMul(QMin(a.value, b.value), QInt(10))
          [] o = "MAX_OUTPUT" -> QMul(QMax(a.value, b.value), QInt(10))
          [] o = "SUM_OUTPUT" -> QMul(QAdd(a.value, b.value), QInt(10))]

\* A process() call with the params P and inputs I the engine presents, the
\* sample time dt, and the draws rndA, rndB of random::uniform() in the two
\* processSlope calls.
Process(P, I, dt, rndA, rndB) ==
    LET freezeA == FreezeCv(FreezeToggle(freezeAState,
                                         QLt(Q(1, 2), P["FREEZE_A_BUTTON_PARAM"]),
                                         prevFreezeAButton),
                            I["FREEZE_A_CV_INPUT"])
        freezeB == FreezeCv(FreezeToggle(freezeBState,
                                         QLt(Q(1, 2), P["FREEZE_B_BUTTON_PARAM"]),
                                         prevFreezeBButton),
                            I["FREEZE_B_CV_INPUT"])
        chaosAAmount == ChaosAmount(P["CHAOS_A_PARAM"], I["CHAOS_A_CV_INPUT"])
        chaosBAmount == ChaosAmount(P["CHAOS_B_PARAM"], I["CHAOS_B_CV_INPUT"])
        now == QAdd(currentTime, dt)
        liA == [active |-> lights["A_ACTIVE_LIGHT"], end |-> lights["A_END_LIGHT"],
                breakpoint |-> lights["A_BREAKPOINT_LIGHT"]]
        liB == [active |-> lights["B_ACTIVE_LIGHT"], end |-> lights["B_END_LIGHT"],
                breakpoint |-> lights["B_BREAKPOINT_LIGHT"]]
    IN  \E a \in {ProcessSlope(IdsA, slopeA, liA, dt, freezeA, chaosAAmount, now,
                                 rndA, P, I)},
           b \in {ProcessSlope(IdsB, slopeB, liB, dt, freezeB, chaosBAmount, now,
                                 rndB, P, I)} :
        /\ params' = P
        /\ inputs' = I
        /\ sampleTime' = dt
        /\ freezeAState' = freezeA
        /\ freezeBState' = freezeB
        /\ prevFreezeAButton' = QLt(Q(1, 2), P["FREEZE_A_BUTTON_PARAM"])
        /\ prevFreezeBButton' = QLt(Q(1, 2), P["FREEZE_B_BUTTON_PARAM"])
        /\ currentTime' = now
        /\ slopeA' = a.s
        /\ slopeB' = b.s
        /\ localsA' = a.locals
        /\ localsB' = b.locals
        /\ outputs' = Outputs(a.s, b.s, P["MIX_PARAM"])
        /\ lights' = [l \in LightIds |->
                        CASE l = "A_ACTIVE_LIGHT" -> a.lights.active
                          [] l = "A_END_LIGHT" -> a.lights.end
                          [] l = "A_BREAKPOINT_LIGHT" -> a.lights.breakpoint
                          [] l = "B_ACTIVE_LIGHT" -> b.lights.active
                          [] l = "B_END_LIGHT" -> b.lights.end
                          [] l = "B_BREAKPOINT_LIGHT" -> b.lights.breakpoint
                          [] l = "CHAOS_A_LIGHT" -> chaosAAmount
                          [] l = "CHAOS_B_LIGHT" -> chaosBAmount
                          [] l = "FREEZE_A_LIGHT" -> IF freezeA THEN One ELSE Zero
                          [] l = "FREEZE_B_LIGHT" -> IF freezeB THEN One ELSE Zero]
        /\ prevAValue' = a.s.value
        /\ prevBValue' = b.s.value

\* The field initialisers of struct Matho, with the constructor's chaos draw u
InitSlope(u) ==
    [phase |-> Zero, value |-> Zero, derivative |-> Zero, integral |-> Zero,
     rising |-> FALSE, endPulse |-> FALSE, breakpointPulse |-> FALSE,
     chaosMod |-> ChaosDraw(u), prevTrigger |-> FALSE, prevSync |-> FALSE,
     lastSyncTime |-> Zero, syncPeriod |-> One]

---------------------------------------------------------------------------
(* History of channel A's uninterrupted cycle: started by an accepted      *)
(* trigger, it lasts while the trigger input stays connected, no further   *)
(* trigger or sync edge arrives, cycling is off and the channel is not     *)
(* frozen.  It counts, at the end of each of its ticks, the ticks with the *)
(* END output high, the ticks with the BREAKPOINT output high and the      *)
(* false-to-true steps of breakpointPulse, and is "done" from the tick on  *)
(* which the fall stage completes.  fromIdle records that the trigger was  *)
(* accepted with the channel at rest (fall complete, breakpointPulse       *)
(* clear).                                                                 *)

NoCycle == [stage |-> "none", fromIdle |-> FALSE, endTicks |-> 0, bpRises |-> 0, bpTicks |-> 0]

WatchCycle ==
    LET qualifies == /\ inputs'["A_TRIG_INPUT"].connected
                     /\ localsA'.advanced
                     /\ ~localsA'.syncEdge
                     /\ ~QLt(Q(1, 2), params'["A_CYCLE_PARAM"])
        started == qualifies /\ localsA'.triggerAccepted
        continued == qualifies /\ ~localsA'.triggerEdge /\ watchA.stage # "none"
        idleBefore == ~slopeA.rising /\ ~QLt(slopeA.phase, One) /\ ~slopeA.breakpointPulse
        endTick == IF outputs'["A_END_OUTPUT"] = QInt(10) THEN 1 ELSE 0
        bpRise == IF ~slopeA.breakpointPulse /\ slopeA'.breakpointPulse THEN 1 ELSE 0
        bpTick == IF outputs'["A_BREAKPOINT_OUTPUT"] = QInt(10) THEN 1 ELSE 0
    IN  watchA' =
            IF started
            THEN [stage |-> "run", fromIdle |-> idleBefore, endTicks |-> endTick,
                  bpRises |-> bpRise, bpTicks |-> bpTick]
            ELSE IF continued
            THEN [stage |-> IF watchA.stage = "done" \/ localsA'.endPulse
                            THEN "done" ELSE "run",
                  fromIdle |-> watchA.fromIdle,
                  endTicks |-> watchA.endTicks + endTick,
                  bpRises |-> watchA.bpRises + bpRise,
                  bpTicks |-> watchA.bpTicks + bpTick]
            ELSE NoCycle

\* A second instance before its first process() call
NoPeer == [buttonA |-> FALSE, buttonB |-> FALSE,
           freezeAState |-> FALSE, freezeBState |-> FALSE]

\* No call of applyCurve yet
NoProbe == [phase |-> Zero, curve |-> Zero, shaped |-> Zero, raw |-> Zero]

\* A process() call, with the history kept
Tick(P, I, dt, rndA, rndB) ==
    Process(P, I, dt, rndA, rndB) /\ WatchCycle /\ UNCHANGED <<trail, peer, probe, comparally>>

\* A process() call, with channel A's sample appended to the trail
TrailTick(P, I, dt, rndA, rndB) ==
    /\ Process(P, I, dt, rndA, rndB)
    /\ trail' = Append(trail, [rising |-> slopeA'.rising, phase |-> slopeA'.phase,
                               value |-> slopeA'.value])
    /\ UNCHANGED <<watchA, peer, probe, comparally>>

---------------------------------------------------------------------------
(* The Comparally window comparator (src/src/Comparally.cpp): a second     *)
(* module of the plugin with its own params, inputs, outputs and lights.   *)
(* One call of Comparally::process classifies four inputs, each against    *)
(* its own window, and derives the pair logic.  Of a light the model keeps *)
(* the brightness handed to setBrightnessSmooth; the smoothing is the      *)
(* library's.                                                              *)

ComparallyParamIds ==
    {"A_SHIFT_PARAM", "A_SIZE_PARAM", "B_SHIFT_PARAM", "B_SIZE_PARAM",
     "C_SHIFT_PARAM", "C_SIZE_PARAM", "D_SHIFT_PARAM", "D_SIZE_PARAM"}

ComparallyInputIds ==
    {"A_IN_INPUT", "A_SHIFT_CV_INPUT", "A_SIZE_CV_INPUT",
     "B_IN_INPUT", "B_SHIFT_CV_INPUT", "B_SIZE_CV_INPUT",
     "C_IN_INPUT", "C_SHIFT_CV_INPUT", "C_SIZE_CV_INPUT",
     "D_IN_INPUT", "D_SHIFT_CV_INPUT", "D_SIZE_CV_INPUT"}

ComparallyOutputIds ==
    {"A_HI_OUTPUT", "A_WIN_OUTPUT", "A_LO_OUTPUT",
     "B_HI_OUTPUT", "B_WIN_OUTPUT", "B_LO_OUTPUT",
     "C_HI_OUTPUT", "C_WIN_OUTPUT", "C_LO_OUTPUT",
     "D_HI_OUTPUT", "D_WIN_OUTPUT", "D_LO_OUTPUT",
     "AB_AND_OUTPUT", "AB_OR_OUTPUT", "AB_XOR_OUTPUT", "AB_FF_OUTPUT",
     "CD_AND_OUTPUT", "CD_OR_OUTPUT", "CD_XOR_OUTPUT", "CD_FF_OUTPUT",
     "PAIRS_AND_OUTPUT", "PAIRS_OR_OUTPUT", "PAIRS_XOR_OUTPUT"}

ComparallyLightIds ==
    {"A_HI_LIGHT", "A_WIN_LIGHT", "A_LO_LIGHT",
     "B_HI_LIGHT", "B_WIN_LIGHT", "B_LO_LIGHT",
     "C_HI_LIGHT", "C_WIN_LIGHT", "C_LO_LIGHT",
     "D_HI_LIGHT", "D_WIN_LIGHT", "D_LO_LIGHT",
     "AB_AND_LIGHT", "AB_OR_LIGHT", "AB_XOR_LIGHT", "AB_FF_LIGHT",
     "CD_AND_LIGHT", "CD_OR_LIGHT", "CD_XOR_LIGHT", "CD_FF_LIGHT",
     "PAIRS_AND_LIGHT", "PAIRS_OR_LIGHT", "PAIRS_XOR_LIGHT"}

\* The knobs as the constructor leaves them: every shift at 0 V, every size at 1 V
ComparallyDefaults ==
    [p \in ComparallyParamIds |->
        IF p \in {"A_SIZE_PARAM", "B_SIZE_PARAM", "C_SIZE_PARAM", "D_SIZE_PARAM"}
        THEN One ELSE Zero]

ComparallyNoInputs == [i \in ComparallyInputIds |-> Unplugged]

\* const float H = 0.1f
H == Q(1, 10)

\* The smallest window size: std::max(0.0001f, ...)
MinSize == Q(1, 10000)

\* hi ? 10.f : 0.f, the voltage of a gate output
Gate(b) == IF b THEN QInt(10) ELSE Zero

\* hi ? 1.f : 0.f, the brightness of a light
Lit(b) == IF b THEN One ELSE Zero

\* A variant of Classify whose first branch leaves lo as it was
ClassifyKeepsLo(in, hiEdge, loEdge, f) ==
    IF QLt(QAdd(hiEdge, H), in)
    THEN [hi |-> TRUE, win |-> FALSE, lo |-> f.lo]
    ELSE IF QLt(in, QSub(loEdge, H))
    THEN [hi |-> FALSE, win |-> FALSE, lo |-> TRUE]
    ELSE IF \/ f.hi /\ QLe(in, QSub(hiEdge, H))
            \/ f.lo /\ QLe(QAdd(loEdge, H), in)
            \/ ~f.win /\ QLe(QAdd(loEdge, H), in) /\ QLe(in, QSub(hiEdge, H))
    THEN [hi |-> FALSE, win |-> TRUE, lo |-> FALSE]
    ELSE f

\* A variant of Classify that compares with the window edges themselves
ClassifyAtEdges(in, hiEdge, loEdge, f) ==
    IF QLt(hiEdge, in)
    THEN [hi |-> TRUE, win |-> FALSE, lo |-> FALSE]
    ELSE IF QLt(in, loEdge)
    THEN [hi |-> FALSE, win |-> FALSE, lo |-> TRUE]
    ELSE [hi |-> FALSE, win |-> TRUE, lo |-> FALSE]

\* runChannel, the if-else chain on (hi, win, lo): the flags after it
Classify(in, hiEdge, loEdge, f) ==
    IF QLt(QAdd(hiEdge, H), in)
    THEN [hi |-> TRUE, win |-> FALSE, lo |-> FALSE]
    ELSE IF QLt(in, QSub(loEdge, H))
    THEN [hi |-> FALSE, win |-> FALSE, lo |-> TRUE]
    ELSE IF \/ f.hi /\ QLe(in, QSub(hiEdge, H))
            \/ f.lo /\ QLe(QAdd(loEdge, H), in)
            \/ ~f.win /\ QLe(QAdd(loEdge, H), in) /\ QLe(in, QSub(hiEdge, H))
    THEN [hi |-> FALSE, win |-> TRUE, lo |-> FALSE]
    ELSE f

\* runChannel: its locals and the flags after it
runChannel(in, shift, shiftCv, sizeKnob, sizeCv, f) ==
    LET center == QAdd(shift, shiftCv)
        size == QMax(MinSize, QAdd(sizeKnob, sizeCv))
        hiEdge == QAdd(center, QMul(Q(1, 2), size))
        loEdge == QSub(center, QMul(Q(1, 2), size))
    IN  [in |-> in, center |-> center, size |-> size, hiEdge |-> hiEdge,
         loEdge |-> loEdge, flags |-> Classify(in, hiEdge, loEdge, f)]

\* A variant of FlipFlop that toggles on every call with the XOR true
FlipFlopOnLevel(flipFlop, xor, xorPrevious) ==
    IF xor THEN ~flipFlop ELSE flipFlop

\* if (abXor && !abXorPrevious) abFlipFlop = !abFlipFlop
FlipFlop(flipFlop, xor, xorPrevious) ==
    IF xor /\ ~xorPrevious THEN ~flipFlop ELSE flipFlop

ComparallyInit ==
    [params |-> ComparallyDefaults, inputs |-> ComparallyNoInputs,
     aHi |-> FALSE, aWin |-> FALSE, aLo |-> FALSE,
     bHi |-> FALSE, bWin |-> FALSE, bLo |-> FALSE,
     cHi |-> FALSE, cWin |-> FALSE, cLo |-> FALSE,
     dHi |-> FALSE, dWin |-> FALSE, dLo |-> FALSE,
     abFlipFlop |-> FALSE, cdFlipFlop |-> FALSE,
     abXorPrevious |-> FALSE, cdXorPrevious |-> FALSE,
     outputs |-> [o \in ComparallyOutputIds |-> Zero],
     lights |-> [l \in ComparallyLightIds |-> Zero],
     locals |-> <<>>]

\* Comparally::process from the pair logic on, and the instance the call leaves:
\* a, b, cc, d are what the four calls of runChannel returned
PairLogic(c, P, I, a, b, cc, d) ==
    LET abAnd == a.flags.win /\ b.flags.win
        abOr == a.flags.win \/ b.flags.win
        abXor == a.flags.win # b.flags.win
        abFlipFlop == FlipFlop(c.abFlipFlop, abXor, c.abXorPrevious)
        cdAnd == cc.flags.win /\ d.flags.win
        cdOr == cc.flags.win \/ d.flags.win
        cdXor == cc.flags.win # d.flags.win
        cdFlipFlop == FlipFlop(c.cdFlipFlop, cdXor, c.cdXorPrevious)
        abActive == abAnd \/ abOr \/ abXor
        cdActive == cdAnd \/ cdOr \/ cdXor
        pairsAnd == abActive /\ cdActive
        pairsOr == abActive \/ cdActive
        pairsXor == abActive # cdActive
    IN  [params |-> P, inputs |-> I,
         aHi |-> a.flags.hi, aWin |-> a.flags.win, aLo |-> a.flags.lo,
         bHi |-> b.flags.hi, bWin |-> b.flags.win, bLo |-> b.flags.lo,
         cHi |-> cc.flags.hi, cWin |-> cc.flags.win, cLo |-> cc.flags.lo,
         dHi |-> d.flags.hi, dWin |-> d.flags.win, dLo |-> d.flags.lo,
         abFlipFlop |-> abFlipFlop, cdFlipFlop |-> cdFlipFlop,
         abXorPrevious |-> abXor, cdXorPrevious |-> cdXor,
         outputs |->
            [A_HI_OUTPUT |-> Gate(a.flags.hi), A_WIN_OUTPUT |-> Gate(a.flags.win),
             A_LO_OUTPUT |-> Gate(a.flags.lo),
             B_HI_OUTPUT |-> Gate(b.flags.hi), B_WIN_OUTPUT |-> Gate(b.flags.win),
             B_LO_OUTPUT |-> Gate(b.flags.lo),
             C_HI_OUTPUT |-> Gate(cc.flags.hi), C_WIN_OUTPUT |-> Gate(cc.flags.win),
             C_LO_OUTPUT |-> Gate(cc.flags.lo),
             D_HI_OUTPUT |-> Gate(d.flags.hi), D_WIN_OUTPUT |-> Gate(d.flags.win),
             D_LO_OUTPUT |-> Gate(d.flags.lo),
             AB_AND_OUTPUT |-> Gate(abAnd), AB_OR_OUTPUT |-> Gate(abOr),
             AB_XOR_OUTPUT |-> Gate(abXor), AB_FF_OUTPUT |-> Gate(abFlipFlop),
             CD_AND_OUTPUT |-> Gate(cdAnd), CD_OR_OUTPUT |-> Gate(cdOr),
             CD_XOR_OUTPUT |-> Gate(cdXor), CD_FF_OUTPUT |-> Gate(cdFlipFlop),
             PAIRS_AND_OUTPUT |-> Gate(pairsAnd),
             PAIRS_OR_OUTPUT |-> Gate(pairsOr),
             PAIRS_XOR_OUTPUT |-> Gate(pairsXor)],
         lights |->
            [A_HI_LIGHT |-> Lit(a.flags.hi), A_WIN_LIGHT |-> Lit(a.flags.win),
             A_LO_LIGHT |-> Lit(a.flags.lo),
             B_HI_LIGHT |-> Lit(b.flags.hi), B_WIN_LIGHT |-> Lit(b.flags.win),
             B_LO_LIGHT |-> Lit(b.flags.lo),
             C_HI_LIGHT |-> Lit(cc.flags.hi), C_WIN_LIGHT |-> Lit(cc.flags.win),
             C_LO_LIGHT |-> Lit(cc.flags.lo),
             D_HI_LIGHT |-> Lit(d.flags.hi), D_WIN_LIGHT |-> Lit(d.flags.win),
             D_LO_LIGHT |-> Lit(d.flags.lo),
             AB_AND_LIGHT |-> Lit(abAnd), AB_OR_LIGHT |-> Lit(abOr),
             AB_XOR_LIGHT |-> Lit(abXor), AB_FF_LIGHT |-> Lit(abFlipFlop),
             CD_AND_LIGHT |-> Lit(cdAnd), CD_OR_LIGHT |-> Lit(cdOr),
             CD_XOR_LIGHT |-> Lit(cdXor), CD_FF_LIGHT |-> Lit(cdFlipFlop),
             PAIRS_AND_LIGHT |-> Lit(pairsAnd), PAIRS_OR_LIGHT |-> Lit(pairsOr),
             PAIRS_XOR_LIGHT |-> Lit(pairsXor)],
         locals |-> [A |-> a, B |-> b, C |-> cc, D |-> d]]

\* Comparally::process(args) with the knobs P and the ports I: the input
\* normalization, the four calls of runChannel, the pair logic
ComparallyProcess(P, I) ==
    LET c == comparally
        inA == I["A_IN_INPUT"].voltage
        inB == IF I["B_IN_INPUT"].connected THEN I["B_IN_INPUT"].voltage ELSE inA
        inC == IF I["C_IN_INPUT"].connected THEN I["C_IN_INPUT"].voltage ELSE inB
        inD == IF I["D_IN_INPUT"].connected THEN I["D_IN_INPUT"].voltage ELSE inC
    IN  \E a \in {runChannel(inA, P["A_SHIFT_PARAM"], I["A_SHIFT_CV_INPUT"].voltage,
                             P["A_SIZE_PARAM"], I["A_SIZE_CV_INPUT"].voltage,
                             [hi |-> c.aHi, win |-> c.aWin, lo |-> c.aLo])},
           b \in {runChannel(inB, P["B_SHIFT_PARAM"], I["B_SHIFT_CV_INPUT"].voltage,
                             P["B_SIZE_PARAM"], I["B_SIZE_CV_INPUT"].voltage,
                             [hi |-> c.bHi, win |-> c.bWin, lo |-> c.bLo])},
           cc \in {runChannel(inC, P["C_SHIFT_PARAM"], I["C_SHIFT_CV_INPUT"].voltage,
                              P["C_SIZE_PARAM"], I["C_SIZE_CV_INPUT"].voltage,
                              [hi |-> c.cHi, win |-> c.cWin, lo |-> c.cLo])},
           d \in {runChannel(inD, P["D_SHIFT_PARAM"], I["D_SHIFT_CV_INPUT"].voltage,
                             P["D_SIZE_PARAM"], I["D_SIZE_CV_INPUT"].voltage,
                             [hi |-> c.dHi, win |-> c.dWin, lo |-> c.dLo])} :
            comparally' = PairLogic(c, P, I, a, b, cc, d)

---------------------------------------------------------------------------
(* The engine around the module: what it presents to process() each call.  *)

\* Bounds of the model
MaxTicks == 5

\* random::uniform() draws: the constructor's, and those of a process() call
UniformSet == {Q(1, 4)}
TickDraws == {[trigger |-> Q(3, 4), sync |-> Q(3, 4), wrap |-> Q(3, 4)]}
\* channel B is left unpatched in the single-channel specifications
QuietDraws == [trigger |-> Q(1, 2), sync |-> Q(1, 2), wrap |-> Q(1, 2)]

\* knob positions: a rise/fall knob at 0, 3/16, 1/4 gives a stage of 0.001 s
\* (clamped), 3/8 s, 1/2 s
RiseKnobs == {Q(3, 16), Q(1, 4)}
FallKnobs == {Zero, Q(1, 4)}
BreakpointKnobs == {Zero, Q(1, 2), One}
SampleTimes == {Q(1, 4)}
TrigLevels == {Unplugged, Cable(Zero), Cable(QInt(10))}
Buttons == {Zero, One}

NoInputs == [i \in InputIds |-> Unplugged]

\* channel B held frozen by its freeze CV in the single-channel specifications
QuietB == [NoInputs EXCEPT !["FREEZE_B_CV_INPUT"] = Cable(QInt(5))]

\* The knob settings of a run: chosen before the first call, then left alone
KnobSettings ==
    {[DefaultParams EXCEPT !["A_RISE_PARAM"] = r, !["A_FALL_PARAM"] = f,
                           !["A_BREAKPOINT_PARAM"] = bp,
                           !["A_CYCLE_PARAM"] = QInt(cy),
                           !["A_TRIG_MODE_PARAM"] = QInt(m)] :
        r \in RiseKnobs, f \in FallKnobs, bp \in BreakpointKnobs,
        cy \in {0, 1}, m \in 0..3}

Knobs == IF currentTime = Zero THEN KnobSettings ELSE {params}

TickSampleTimes == IF currentTime = Zero THEN SampleTimes ELSE {sampleTime}

Init ==
    /\ params = DefaultParams
    /\ inputs = NoInputs
    /\ sampleTime = Zero
    /\ \E u \in UniformSet : slopeA = InitSlope(u)
    /\ slopeB = InitSlope(Q(1, 2))
    /\ freezeAState = FALSE
    /\ freezeBState = FALSE
    /\ prevFreezeAButton = FALSE
    /\ prevFreezeBButton = FALSE
    /\ currentTime = Zero
    /\ prevAValue = Zero
    /\ prevBValue = Zero
    /\ outputs = [o \in OutputIds |-> Zero]
    /\ lights = [l \in LightIds |-> Zero]
    /\ localsA = NoLocals
    /\ localsB = NoLocals
    /\ watchA = NoCycle
    /\ trail = <<>>
    /\ peer = NoPeer
    /\ probe = NoProbe
    /\ comparally = ComparallyInit

\* Channel A under free trigger and freeze-button signals; channel B frozen
Next ==
    \E K \in Knobs, dt \in TickSampleTimes, trig \in TrigLevels, button \in Buttons,
       rndA \in TickDraws :
        /\ QLt(currentTime, QMul(QInt(MaxTicks), dt))
        /\ Tick([K EXCEPT !["FREEZE_A_BUTTON_PARAM"] = button],
                [QuietB EXCEPT !["A_TRIG_INPUT"] = trig],
                dt, rndA, QuietDraws)

Spec == Init /\ [][Next]_vars

---------------------------------------------------------------------------
(* Free-running channel A: cycling on, sync unplugged, trigger cable held  *)
(* low, no chaos, never frozen, knobs constant from the first tick.        *)

MaxCycleTicks == 10

CycleRiseKnobs == {Q(1, 8), Q(3, 16), Q(1, 4)}
CycleFallKnobs == {Zero, Q(1, 8), Q(3, 16), Q(1, 4)}
CycleCurveKnobs == {Zero, Q(-1, 2)}
CycleSampleTimes == {Q(1, 8), Q(1, 4)}

CycleKnobSettings ==
    {[DefaultParams EXCEPT !["A_RISE_PARAM"] = r, !["A_FALL_PARAM"] = f,
                           !["A_CURVE_PARAM"] = c, !["A_CYCLE_PARAM"] = One] :
        r \in CycleRiseKnobs, f \in CycleFallKnobs, c \in CycleCurveKnobs}

NextCycle ==
    \E K \in (IF currentTime = Zero THEN CycleKnobSettings ELSE {params}),
       dt \in (IF currentTime = Zero THEN CycleSampleTimes ELSE {sampleTime}),
       rndA \in TickDraws :
        /\ QLt(currentTime, QMul(QInt(MaxCycleTicks), dt))
        /\ TrailTick(K, [QuietB EXCEPT !["A_TRIG_INPUT"] = Cable(Zero)], dt, rndA, QuietDraws)

SpecCycle == Init /\ [][NextCycle]_vars

---------------------------------------------------------------------------
(* Channel A under a sync cable with a free clock level: trigger cable     *)
(* held low, no chaos, never frozen, knobs constant from the first tick.   *)

MaxSyncTicks == 7

SyncRiseKnobs == {Q(3, 16), Q(1, 4), Q(1, 2)}
SyncSampleTimes == {Q(1, 250), Q(1, 4), QInt(6)}
SyncLevels == {Zero, QInt(10)}

SyncKnobSettings ==
    {[DefaultParams EXCEPT !["A_RISE_PARAM"] = r, !["A_FALL_PARAM"] = r2,
                           !["A_CYCLE_PARAM"] = QInt(cy)] :
        r \in SyncRiseKnobs, r2 \in {Q(1, 4), Q(1, 2)}, cy \in {0, 1}}

NextSync ==
    \E K \in (IF currentTime = Zero THEN SyncKnobSettings ELSE {params}),
       dt \in (IF currentTime = Zero THEN SyncSampleTimes ELSE {sampleTime}),
       level \in SyncLevels, rndA \in TickDraws :
        /\ QLt(currentTime, QMul(QInt(MaxSyncTicks), dt))
        /\ Process(K, [QuietB EXCEPT !["A_TRIG_INPUT"] = Cable(Zero),
                                     !["A_SYNC_INPUT"] = Cable(level)],
                   dt, rndA, QuietDraws)
        /\ UNCHANGED <<watchA, trail, peer, probe, comparally>>

SpecSync == Init /\ [][NextSync]_vars

---------------------------------------------------------------------------
(* Both freeze controllers under free buttons and freeze CV levels around  *)
(* the 2 V threshold; trigger cable of channel A held low.                 *)

MaxFreezeTicks == 3

FreezeLevels == {Unplugged, Cable(QInt(1)), Cable(QInt(2)), Cable(QInt(3))}
FreezeBSettings ==
    {[button |-> Zero, cv |-> Unplugged], [button |-> One, cv |-> Cable(QInt(2))],
     [button |-> Zero, cv |-> Cable(QInt(3))], [button |-> One, cv |-> Cable(QInt(1))],
     [button |-> One, cv |-> Unplugged]}

NextFreeze ==
    \E bA \in Buttons, cvA \in FreezeLevels, fB \in FreezeBSettings, rndA \in TickDraws :
        /\ QLt(currentTime, QMul(QInt(MaxFreezeTicks), Q(1, 4)))
        /\ Process([DefaultParams EXCEPT !["FREEZE_A_BUTTON_PARAM"] = bA,
                                         !["FREEZE_B_BUTTON_PARAM"] = fB.button],
                   [NoInputs EXCEPT !["A_TRIG_INPUT"] = Cable(Zero),
                                    !["FREEZE_A_CV_INPUT"] = cvA,
                                    !["FREEZE_B_CV_INPUT"] = fB.cv],
                   Q(1, 4), rndA, QuietDraws)
        /\ UNCHANGED <<watchA, trail, peer, probe, comparally>>

SpecFreeze == Init /\ [][NextFreeze]_vars

---------------------------------------------------------------------------
(* Two Matho instances in one process.  prevFreezeAButton and              *)
(* prevFreezeBButton are function-local statics of Matho::process, so both *)
(* instances read and write the same two flags.  Of the second instance    *)
(* only what meets those flags is kept: its freeze buttons and its freeze  *)
(* flags (its freeze CV inputs have no cable).                             *)

MaxPeerTicks == 4

\* process() of the second instance: the two button toggles
PeerProcess(pressedA, pressedB) ==
    /\ peer' = [buttonA |-> pressedA, buttonB |-> pressedB,
                freezeAState |-> FreezeToggle(peer.freezeAState, pressedA,
                                              prevFreezeAButton),
                freezeBState |-> FreezeToggle(peer.freezeBState, pressedB,
                                              prevFreezeBButton)]
    /\ prevFreezeAButton' = pressedA
    /\ prevFreezeBButton' = pressedB
    /\ UNCHANGED <<params, inputs, sampleTime, slopeA, slopeB, freezeAState,
                   freezeBState, currentTime, prevAValue, prevBValue, outputs,
                   lights, localsA, localsB, watchA, trail, probe, comparally>>

OwnTick ==
    \E bA \in Buttons, trig \in {Cable(Zero), Cable(QInt(10))}, rndA \in TickDraws :
        /\ QLt(currentTime, QMul(QInt(MaxPeerTicks), Q(1, 4)))
        /\ Process([DefaultParams EXCEPT !["FREEZE_A_BUTTON_PARAM"] = bA],
                   [QuietB EXCEPT !["A_TRIG_INPUT"] = trig],
                   Q(1, 4), rndA, QuietDraws)
        /\ UNCHANGED <<watchA, trail, peer, probe, comparally>>

PeerTick == \E pressedA \in BOOLEAN, pressedB \in BOOLEAN : PeerProcess(pressedA, pressedB)

NextPeers == OwnTick \/ PeerTick

SpecPeers == Init /\ [][NextPeers]_vars

---------------------------------------------------------------------------
(* Both channels running: channel A under a free trigger level, channel B  *)
(* under free trigger, sync, rate CV, freeze CV and rise knob, and a free  *)
(* mix knob.                                                               *)

MaxDualTicks == 3

DualTrigLevels == {Cable(Zero), Cable(QInt(10))}
MixKnobs == {Q(1, 4), One}
DualBSettings ==
    {[trig |-> Unplugged, sync |-> Unplugged, rateCv |-> Unplugged,
      freezeCv |-> Unplugged, rise |-> Q(1, 2)],
     [trig |-> Cable(Zero), sync |-> Unplugged, rateCv |-> Unplugged,
      freezeCv |-> Unplugged, rise |-> Q(1, 4)],
     [trig |-> Cable(QInt(10)), sync |-> Unplugged, rateCv |-> Cable(QInt(5)),
      freezeCv |-> Unplugged, rise |-> Q(1, 2)],
     [trig |-> Cable(Zero), sync |-> Cable(QInt(10)), rateCv |-> Cable(QInt(5)),
      freezeCv |-> Unplugged, rise |-> Q(1, 2)],
     [trig |-> Cable(QInt(10)), sync |-> Unplugged, rateCv |-> Unplugged,
      freezeCv |-> Cable(QInt(5)), rise |-> Q(1, 2)]}

NextDual ==
    \E trigA \in DualTrigLevels, mix \in MixKnobs, B \in DualBSettings, rndA \in TickDraws :
        /\ QLt(currentTime, QMul(QInt(MaxDualTicks), Q(1, 4)))
        /\ Process([DefaultParams EXCEPT !["MIX_PARAM"] = mix, !["B_RISE_PARAM"] = B.rise],
                   [NoInputs EXCEPT !["A_TRIG_INPUT"] = trigA,
                                    !["B_TRIG_INPUT"] = B.trig,
                                    !["B_SYNC_INPUT"] = B.sync,
                                    !["B_RATE_CV_INPUT"] = B.rateCv,
                                    !["FREEZE_B_CV_INPUT"] = B.freezeCv],
                   Q(1, 4), rndA, QuietDraws)
        /\ UNCHANGED <<watchA, trail, peer, probe, comparally>>

SpecDual == Init /\ [][NextDual]_vars

---------------------------------------------------------------------------
(* Channel A under every event at once: a free trigger input (no cable,    *)
(* low, high), a free sync input (no cable, low, high) and a free freeze    *)
(* button, cycling on, rise and fall of 1/2 s each, the trigger mode chosen *)
(* before the first call.  The three places that draw from                  *)
(* random::uniform() get three different draws, so that the seed tells      *)
(* which of them drew last.  trail holds the channel state the last call    *)
(* started from.                                                            *)

MaxEventTicks == 4

EventLevels == {Unplugged, Cable(Zero), Cable(QInt(10))}
EventDraws == {[trigger |-> Q(3, 4), sync |-> Q(7, 8), wrap |-> Zero]}

EventKnobSettings ==
    {[DefaultParams EXCEPT !["A_RISE_PARAM"] = Q(1, 4), !["A_FALL_PARAM"] = Q(1, 4),
                           !["A_CYCLE_PARAM"] = One,
                           !["A_TRIG_MODE_PARAM"] = QInt(m)] : m \in 0..3}

NextEvents ==
    \E K \in (IF currentTime = Zero THEN EventKnobSettings ELSE {params}),
       trig \in EventLevels, sync \in EventLevels, button \in Buttons,
       rndA \in EventDraws :
        /\ QLt(currentTime, QMul(QInt(MaxEventTicks), Q(1, 4)))
        /\ Process([K EXCEPT !["FREEZE_A_BUTTON_PARAM"] = button],
                   [QuietB EXCEPT !["A_TRIG_INPUT"] = trig, !["A_SYNC_INPUT"] = sync],
                   Q(1, 4), rndA, QuietDraws)
        /\ trail' = <<slopeA>>
        /\ UNCHANGED <<watchA, peer, probe, comparally>>

SpecEvents == Init /\ [][NextEvents]_vars

---------------------------------------------------------------------------
(* Channel A under a free chaos amount: the chaos knob and chaos CV are    *)
(* set anew on every call, to an amount of 0 in three ways (knob at 0; knob *)
(* at 1/2 pulled to exactly 0 by -5 V; knob at 1/2 pulled below 0 by -10 V  *)
(* and clamped) or to an amount of 1.  Free trigger level, cycling on, no   *)
(* sync cable, never frozen.  The curve knob is at 1/4, which the seeds     *)
(* -1/2 and 1/2 move to 0 and 1/2 at an amount of 1.  trail holds the       *)
(* channel state the last call started from.                                *)

MaxChaosTicks == 4

ChaosSettings ==
    {[knob |-> Zero, cv |-> Unplugged], [knob |-> Q(1, 2), cv |-> Cable(QInt(-5))],
     [knob |-> Q(1, 2), cv |-> Cable(QInt(-10))], [knob |-> One, cv |-> Unplugged]}

NextChaos ==
    \E trig \in DualTrigLevels, ch \in ChaosSettings, rndA \in TickDraws :
        /\ QLt(currentTime, QMul(QInt(MaxChaosTicks), Q(1, 4)))
        /\ Process([DefaultParams EXCEPT !["A_RISE_PARAM"] = Q(1, 4),
                                         !["A_FALL_PARAM"] = Q(1, 4),
                                         !["A_CURVE_PARAM"] = Q(1, 4),
                                         !["A_CYCLE_PARAM"] = One,
                                         !["CHAOS_A_PARAM"] = ch.knob],
                   [QuietB EXCEPT !["A_TRIG_INPUT"] = trig,
                                  !["CHAOS_A_CV_INPUT"] = ch.cv],
                   Q(1, 4), rndA, QuietDraws)
        /\ trail' = <<slopeA>>
        /\ UNCHANGED <<watchA, peer, probe, comparally>>

SpecChaos == Init /\ [][NextChaos]_vars

---------------------------------------------------------------------------
(* Channel A driven out of range.  A patch, chosen before the first call,  *)
(* fixes the sample time, the knobs and the CV levels; the trigger level    *)
(* and, where the patch has a sync cable, the sync level are free on every  *)
(* call.  CV levels reach +-10 V on the knob CVs and +-100 V on the rate    *)
(* CV, so that every clamp is met from both sides.                          *)
(*   low    every knob CV at -10 V, rate CV at -100 V, chaos amount 1       *)
(*   high   every knob CV at +10 V, rate CV at +100 V, chaos amount 1       *)
(*   split  rise at its shortest and fall at 5 s, curve CV at -20 V,        *)
(*          breakpoint CV at +10 V, no sync cable                           *)
(*   fast   rise at 5 s and fall at its shortest under a sync clock of      *)
(*          4 ms ticks                                                      *)
(* The patches low and high run at a sample time of 20 s, at which every    *)
(* call completes a stage.                                                  *)

MaxClampTicks == 4

Volts(v) == Cable(QInt(v))

ClampPatches ==
    {[name |-> "low", dt |-> QInt(20), sync |-> TRUE,
      P |-> [DefaultParams EXCEPT !["A_RATE_PARAM"] = Zero, !["A_CURVE_PARAM"] = QInt(-1),
                                  !["A_BREAKPOINT_PARAM"] = Zero, !["CHAOS_A_PARAM"] = One],
      I |-> [QuietB EXCEPT !["A_RISE_CV_INPUT"] = Volts(-10),
                           !["A_FALL_CV_INPUT"] = Volts(-10),
                           !["A_CURVE_CV_INPUT"] = Volts(-10),
                           !["A_BREAKPOINT_CV_INPUT"] = Volts(-10),
                           !["A_RATE_CV_INPUT"] = Volts(-100),
                           !["CHAOS_A_CV_INPUT"] = Volts(10)]],
     [name |-> "high", dt |-> QInt(20), sync |-> TRUE,
      P |-> [DefaultParams EXCEPT !["A_RATE_PARAM"] = One, !["A_CURVE_PARAM"] = One,
                                  !["A_BREAKPOINT_PARAM"] = One, !["CHAOS_A_PARAM"] = One,
                                  !["A_CYCLE_PARAM"] = One],
      I |-> [QuietB EXCEPT !["A_RISE_CV_INPUT"] = Volts(10),
                           !["A_FALL_CV_INPUT"] = Volts(10),
                           !["A_CURVE_CV_INPUT"] = Volts(10),
                           !["A_BREAKPOINT_CV_INPUT"] = Volts(10),
                           !["A_RATE_CV_INPUT"] = Volts(100),
                           !["CHAOS_A_CV_INPUT"] = Volts(10)]],
     [name |-> "split", dt |-> Q(1, 4), sync |-> FALSE,
      P |-> [DefaultParams EXCEPT !["A_CYCLE_PARAM"] = One, !["CHAOS_A_PARAM"] = Q(1, 2)],
      I |-> [QuietB EXCEPT !["A_RISE_CV_INPUT"] = Volts(-10),
                           !["A_FALL_CV_INPUT"] = Volts(10),
                           !["A_CURVE_CV_INPUT"] = Volts(-20),
                           !["A_BREAKPOINT_CV_INPUT"] = Volts(10),
                           !["CHAOS_A_CV_INPUT"] = Volts(-10)]],
     [name |-> "fast", dt |-> Q(1, 250), sync |-> TRUE,
      P |-> DefaultParams,
      I |-> [QuietB EXCEPT !["A_RISE_CV_INPUT"] = Volts(10),
                           !["A_FALL_CV_INPUT"] = Volts(-10)]]}

\* the patch in use: any before the first call, then the one chosen
PatchInUse ==
    IF currentTime = Zero THEN ClampPatches
    ELSE {c \in ClampPatches : c.P = params /\ c.dt = sampleTime}

NextClamp ==
    \E c \in PatchInUse, trig \in DualTrigLevels, level \in SyncLevels, rndA \in TickDraws :
        /\ QLt(currentTime, QMul(QInt(MaxClampTicks), c.dt))
        /\ Process(c.P,
                   [c.I EXCEPT !["A_TRIG_INPUT"] = trig,
                               !["A_SYNC_INPUT"] = IF c.sync THEN Cable(level) ELSE Unplugged],
                   c.dt, rndA, QuietDraws)
        /\ trail' = <<slopeA>>
        /\ UNCHANGED <<watchA, peer, probe, comparally>>

SpecClamp == Init /\ [][NextClamp]_vars

---------------------------------------------------------------------------
(* Channel A around its rest state: rise and fall at their shortest        *)
(* (0.001 s), so that a stage completes on every call without a sync       *)
(* cable; the cycle switch chosen before the first call; a free trigger     *)
(* input and a free sync input (no cable, low, high) and a free freeze      *)
(* button.  trail holds the channel state the last call started from.       *)

MaxRestTicks == 3

RestKnobSettings ==
    {[DefaultParams EXCEPT !["A_RISE_PARAM"] = Zero, !["A_FALL_PARAM"] = Zero,
                           !["A_CYCLE_PARAM"] = QInt(cy)] : cy \in {0, 1}}

NextRest ==
    \E K \in (IF currentTime = Zero THEN RestKnobSettings ELSE {params}),
       trig \in EventLevels, sync \in EventLevels, button \in Buttons,
       rndA \in EventDraws :
        /\ QLt(currentTime, QMul(QInt(MaxRestTicks), Q(1, 4)))
        /\ Process([K EXCEPT !["FREEZE_A_BUTTON_PARAM"] = button],
                   [QuietB EXCEPT !["A_TRIG_INPUT"] = trig, !["A_SYNC_INPUT"] = sync],
                   Q(1, 4), rndA, QuietDraws)
        /\ trail' = <<slopeA>>
        /\ UNCHANGED <<watchA, peer, probe, comparally>>

SpecRest == Init /\ [][NextRest]_vars

---------------------------------------------------------------------------
(* The curve shaper on its own: applyCurve and the rawPhase statement of   *)
(* processSlope applied to a phase and a curvature.  CurveSteps and        *)
(* PhaseSteps are the number of steps the curvature range [-1, 1] (each    *)
(* side) and the phase range [0, 1] are cut into.  Away from the ends of   *)
(* the phase range the curvatures are those with an integral exponent.     *)
CurveSteps == 32
PhaseSteps == 8

Curvatures == {Q(k, CurveSteps) : k \in (0 - CurveSteps)..CurveSteps}
Phases == {Q(j, PhaseSteps) : j \in 0..PhaseSteps}
IntegralCurvatures == {Q(0 - k, 2) : k \in 0..2} \cup {Q(k, 8) : k \in 0..8}

CurveInputs ==
    ({Zero, One} \X Curvatures) \cup (Phases \X IntegralCurvatures)

ShapeStep ==
    \E pc \in CurveInputs :
        /\ probe' = [phase |-> pc[1], curve |-> pc[2],
                     shaped |-> applyCurve(pc[1], pc[2]),
                     raw |-> RawPhase(pc[1], pc[2])]
        /\ UNCHANGED <<params, inputs, sampleTime, slopeA, slopeB, freezeAState,
                       freezeBState, prevFreezeAButton, prevFreezeBButton,
                       currentTime, prevAValue, prevBValue, outputs, lights,
                       localsA, localsB, watchA, trail, peer, comparally>>

NextCurve == ShapeStep

SpecCurve == Init /\ [][NextCurve]_vars

---------------------------------------------------------------------------
(* Channel A through whole cycles at every curvature: rise and fall of     *)
(* 1/2 s, a free trigger level, no sync cable, never frozen, the cycle      *)
(* switch and the curve knob chosen before the first call.  At a sample     *)
(* time of 1/2 s every call completes a stage and the curve knob takes      *)
(* every value k/CurveSteps of [-1, 1]; at 1/4 s a stage takes two calls    *)
(* and the knob takes the curvatures with an integral exponent.  trail      *)
(* holds the channel state the last call started from.                      *)

MaxShapeTicks == 5

ShapeSettings ==
    {[dt |-> Q(1, 2), curve |-> c, cycle |-> cy] : c \in Curvatures, cy \in {0, 1}}
    \cup {[dt |-> Q(1, 4), curve |-> c, cycle |-> cy] :
             c \in IntegralCurvatures, cy \in {0, 1}}

ShapeInUse ==
    IF currentTime = Zero THEN ShapeSettings
    ELSE {[dt |-> sampleTime, curve |-> params["A_CURVE_PARAM"],
           cycle |-> ToInt(params["A_CYCLE_PARAM"])]}

NextShape ==
    \E g \in ShapeInUse, trig \in DualTrigLevels, rndA \in TickDraws :
        /\ QLt(currentTime, QMul(QInt(MaxShapeTicks), g.dt))
        /\ Process([DefaultParams EXCEPT !["A_RISE_PARAM"] = Q(1, 4),
                                         !["A_FALL_PARAM"] = Q(1, 4),
                                         !["A_CURVE_PARAM"] = g.curve,
                                         !["A_CYCLE_PARAM"] = QInt(g.cycle)],
                   [QuietB EXCEPT !["A_TRIG_INPUT"] = trig],
                   g.dt, rndA, QuietDraws)
        /\ trail' = <<slopeA>>
        /\ UNCHANGED <<watchA, peer, probe, comparally>>

SpecShape == Init /\ [][NextShape]_vars

---------------------------------------------------------------------------
(* Channel A with calls that keep coming.  A patch, chosen before the      *)
(* first call, fixes the knobs and CV levels:                               *)
(*   long    rate CV at +100 V: rise and fall at their longest, 20 s        *)
(*   short   rate CV at -100 V: rise and fall at their shortest, 0.001 s    *)
(*   synced  rise CV +10 V, fall CV -10 V, rate CV -1 V: rise 4.8 s, fall   *)
(*           0.001 s, under a sync cable                                    *)
(* On every call the engine presents one of four events: nothing, the       *)
(* trigger level high, the sync level high (where the patch has the cable)  *)
(* or the freeze button pressed.  The sample time is 8 s, at which a stage  *)
(* of 20 s takes three calls.  The engine stops calling after               *)
(* MaxProgressTicks calls; until then a call always comes: weak fairness on  *)
(* the clock step that every call takes.                                    *)
(* trail holds the channel state the last call started from.                *)

MaxProgressTicks == 8

ProgressDt == QInt(8)

\* the calls the longest cycle takes: two stages of 20 s at 8 s a call
CycleTicks == 2 * ((20 + 7) \div 8)

ProgressPatches ==
    {[sync |-> FALSE, P |-> DefaultParams,
      I |-> [QuietB EXCEPT !["A_RATE_CV_INPUT"] = Volts(100)]],
     [sync |-> FALSE, P |-> [DefaultParams EXCEPT !["A_CYCLE_PARAM"] = One],
      I |-> [QuietB EXCEPT !["A_RATE_CV_INPUT"] = Volts(-100)]],
     [sync |-> TRUE, P |-> [DefaultParams EXCEPT !["A_CYCLE_PARAM"] = One],
      I |-> [QuietB EXCEPT !["A_RISE_CV_INPUT"] = Volts(10),
                           !["A_FALL_CV_INPUT"] = Volts(-10),
                           !["A_RATE_CV_INPUT"] = Volts(-1)]]}

ProgressEvents == {"none", "trigger", "sync", "button"}

NextProgress ==
    \E c \in (IF currentTime = Zero THEN ProgressPatches
              ELSE {x \in ProgressPatches : x.P["A_CYCLE_PARAM"] = params["A_CYCLE_PARAM"]
                                            /\ x.I["A_RATE_CV_INPUT"] = inputs["A_RATE_CV_INPUT"]}),
       e \in ProgressEvents, rndA \in TickDraws :
        /\ QLt(currentTime, QMul(QInt(MaxProgressTicks), ProgressDt))
        /\ Process([c.P EXCEPT !["FREEZE_A_BUTTON_PARAM"] =
                                    IF e = "button" THEN One ELSE Zero],
                   [c.I EXCEPT !["A_TRIG_INPUT"] =
                                    Cable(IF e = "trigger" THEN QInt(10) ELSE Zero),
                               !["A_SYNC_INPUT"] =
                                    IF c.sync
                                    THEN Cable(IF e = "sync" THEN QInt(10) ELSE Zero)
                                    ELSE Unplugged],
                   ProgressDt, rndA, QuietDraws)
        /\ trail' = <<slopeA>>
        /\ UNCHANGED <<watchA, peer, probe, comparally>>

\* what every call does to the clock; a call is a step of NextProgress
CallComes ==
    /\ QLt(currentTime, QMul(QInt(MaxProgressTicks), ProgressDt))
    /\ currentTime' = QAdd(currentTime, ProgressDt)

SpecProgress == Init /\ [][NextProgress]_vars /\ WF_currentTime(CallComes)

---------------------------------------------------------------------------
(* Channel A with its trigger cable pulled and put back: a free trigger     *)
(* input (no cable, low, high) and a free freeze button, no sync cable, in  *)
(* each trigger mode (chosen before the first call).  trail holds the       *)
(* channel state the last call started from, then the trigger port of the   *)
(* call before the last and of the call before that.                        *)

MaxReplugTicks == 4

NextReplug ==
    \E K \in (IF currentTime = Zero THEN EventKnobSettings ELSE {params}),
       trig \in EventLevels, button \in Buttons, rndA \in EventDraws :
        /\ QLt(currentTime, QMul(QInt(MaxReplugTicks), Q(1, 4)))
        /\ Process([K EXCEPT !["FREEZE_A_BUTTON_PARAM"] = button],
                   [QuietB EXCEPT !["A_TRIG_INPUT"] = trig],
                   Q(1, 4), rndA, QuietDraws)
        /\ trail' = <<slopeA, inputs["A_TRIG_INPUT"],
                      IF Len(trail) = 3 THEN trail[2] ELSE Unplugged>>
        /\ UNCHANGED <<watchA, peer, probe, comparally>>

SpecReplug == Init /\ [][NextReplug]_vars

---------------------------------------------------------------------------
(* Channel A and its breakpoint latch: rise and fall of 1/2 s at 1/4 s a   *)
(* call (two calls a stage), the breakpoint knob at 0, 1/4, 3/4 or 1 and    *)
(* the cycle switch off or on (chosen before the first call), trigger mode  *)
(* 0, a free trigger input (no cable, low, high), a sync input with no      *)
(* cable or high (an edge after every call without the cable) and a free    *)
(* freeze button.  trail holds the channel state the last call started      *)
(* from.                                                                    *)

MaxLatchTicks == 4

LatchKnobSettings ==
    {[DefaultParams EXCEPT !["A_RISE_PARAM"] = Q(1, 4), !["A_FALL_PARAM"] = Q(1, 4),
                           !["A_BREAKPOINT_PARAM"] = Q(b, 4),
                           !["A_CYCLE_PARAM"] = QInt(cy)] : b \in {0, 1, 3, 4}, cy \in {0, 1}}

LatchSyncLevels == {Unplugged, Cable(QInt(10))}

NextLatch ==
    \E K \in (IF currentTime = Zero THEN LatchKnobSettings ELSE {params}),
       trig \in EventLevels, sync \in LatchSyncLevels, button \in Buttons,
       rndA \in EventDraws :
        /\ QLt(currentTime, QMul(QInt(MaxLatchTicks), Q(1, 4)))
        /\ Process([K EXCEPT !["FREEZE_A_BUTTON_PARAM"] = button],
                   [QuietB EXCEPT !["A_TRIG_INPUT"] = trig, !["A_SYNC_INPUT"] = sync],
                   Q(1, 4), rndA, QuietDraws)
        /\ trail' = <<slopeA>>
        /\ UNCHANGED <<watchA, peer, probe, comparally>>

SpecLatch == Init /\ [][NextLatch]_vars

---------------------------------------------------------------------------
(* Both channels at the ends of their ranges.  Channel A: rise and fall of  *)
(* 1/2 s at 1/4 s a call, curve knob at -1, 0, 1/8 or 1; channel B: rise    *)
(* of 0.001 s (the phase overshoots 1 by far on every call), fall of 1/2 s, *)
(* linear; the mix knob at 0, 1/4 or 1; cycling on or off for both (all     *)
(* chosen before the first call).  A free trigger level on each channel.    *)
(* trail holds the state of channel A the last call started from.           *)

MaxRangeTicks == 4

RangeKnobSettings ==
    {[DefaultParams EXCEPT !["A_RISE_PARAM"] = Q(1, 4), !["A_FALL_PARAM"] = Q(1, 4),
                           !["A_CURVE_PARAM"] = c,
                           !["B_RISE_PARAM"] = Zero, !["B_FALL_PARAM"] = Q(1, 4),
                           !["A_CYCLE_PARAM"] = QInt(cy), !["B_CYCLE_PARAM"] = QInt(cy),
                           !["MIX_PARAM"] = m] :
        c \in {QInt(-1), Zero, Q(1, 8), One}, m \in {Zero, Q(1, 4), One}, cy \in {0, 1}}

NextRange ==
    \E K \in (IF currentTime = Zero THEN RangeKnobSettings ELSE {params}),
       trigA \in DualTrigLevels, trigB \in DualTrigLevels, rndA \in TickDraws :
        /\ QLt(currentTime, QMul(QInt(MaxRangeTicks), Q(1, 4)))
        /\ Process(K, [NoInputs EXCEPT !["A_TRIG_INPUT"] = trigA,
                                       !["B_TRIG_INPUT"] = trigB],
                   Q(1, 4), rndA, QuietDraws)
        /\ trail' = <<slopeA>>
        /\ UNCHANGED <<watchA, peer, probe, comparally>>

SpecRange == Init /\ [][NextRange]_vars

---------------------------------------------------------------------------
(* Channel A restarted in mid-cycle with its breakpoint latched: rise and   *)
(* fall of 1/2 s at 1/4 s a call, the breakpoint knob at 1/4 or 3/4 (chosen *)
(* before the first call), cycling on, trigger mode 0, not frozen, a free   *)
(* trigger input (no cable, low, high) and a sync input with no cable or    *)
(* high.  trail holds the channel state the last call started from, then    *)
(* two flags: a latch has been carried through a restart and no fall has    *)
(* completed since; and the same with the trigger cable in ever since.      *)

MaxCarryTicks == 5

CarryKnobSettings ==
    {[DefaultParams EXCEPT !["A_RISE_PARAM"] = Q(1, 4), !["A_FALL_PARAM"] = Q(1, 4),
                           !["A_BREAKPOINT_PARAM"] = Q(b, 4),
                           !["A_CYCLE_PARAM"] = One] : b \in {1, 3}}

\* the flag after a call, from the flag before it
Carried(was, cleared) ==
    IF cleared THEN FALSE
    ELSE IF (localsA'.triggerAccepted \/ localsA'.syncEdge)
            /\ slopeA.breakpointPulse /\ inputs'["A_TRIG_INPUT"].connected
    THEN TRUE
    ELSE was

NextCarry ==
    \E K \in (IF currentTime = Zero THEN CarryKnobSettings ELSE {params}),
       trig \in EventLevels, sync \in LatchSyncLevels, rndA \in EventDraws :
        /\ QLt(currentTime, QMul(QInt(MaxCarryTicks), Q(1, 4)))
        /\ Process(K, [QuietB EXCEPT !["A_TRIG_INPUT"] = trig, !["A_SYNC_INPUT"] = sync],
                   Q(1, 4), rndA, QuietDraws)
        /\ trail' = <<slopeA,
                      Carried(Len(trail) = 3 /\ trail[2],
                              localsA'.advanced /\ localsA'.endPulse),
                      Carried(Len(trail) = 3 /\ trail[3],
                              (localsA'.advanced /\ localsA'.endPulse)
                                  \/ ~inputs'["A_TRIG_INPUT"].connected)>>
        /\ UNCHANGED <<watchA, peer, probe, comparally>>

SpecCarry == Init /\ [][NextCarry]_vars

---------------------------------------------------------------------------
(* Channel A with its trigger cable pulled at any moment: rise and fall of  *)
(* 1/2 s at 1/4 s a call, cycling on, trigger mode 0, a free trigger input  *)
(* and a free sync input (no cable, low, high) and a free freeze button.    *)
(* trail holds the channel state the last call started from and the frozen  *)
(* flag it started with.                                                    *)

MaxUnplugTicks == 3

UnplugKnobs ==
    [DefaultParams EXCEPT !["A_RISE_PARAM"] = Q(1, 4), !["A_FALL_PARAM"] = Q(1, 4),
                          !["A_CYCLE_PARAM"] = One]

NextUnplug ==
    \E trig \in EventLevels, sync \in EventLevels, button \in Buttons, rndA \in EventDraws :
        /\ QLt(currentTime, QMul(QInt(MaxUnplugTicks), Q(1, 4)))
        /\ Process([UnplugKnobs EXCEPT !["FREEZE_A_BUTTON_PARAM"] = button],
                   [QuietB EXCEPT !["A_TRIG_INPUT"] = trig, !["A_SYNC_INPUT"] = sync],
                   Q(1, 4), rndA, QuietDraws)
        /\ trail' = <<slopeA, freezeAState>>
        /\ UNCHANGED <<watchA, peer, probe, comparally>>

SpecUnplug == Init /\ [][NextUnplug]_vars

---------------------------------------------------------------------------
(* The combiner on its own, in the arithmetic of the code: aValue, bValue   *)
(* and mix are floats and every operation of "Mix outputs" and of MIN, MAX  *)
(* and SUM rounds its result to a float.  A non-negative float is a pair    *)
(* <<m, e>> standing for m * 2^(-e), with 0 <= m < 2^24, kept in lowest      *)
(* terms (m odd, or <<0, 0>>).  Rounding is to nearest, ties to even.  The  *)
(* exponent range is left out: no value here is near its ends.              *)

RECURSIVE Pow2(_)
Pow2(k) == IF k = 0 THEN 1 ELSE 2 * Pow2(k - 1)

\* the number of binary digits of n
RECURSIVE BitLength(_)
BitLength(n) == IF n = 0 THEN 0 ELSE 1 + BitLength(n \div 2)

\* m * 2^(-e) in lowest terms
RECURSIVE F32Lowest(_, _)
F32Lowest(m, e) ==
    IF m = 0 THEN <<0, 0>>
    ELSE IF m % 2 = 0 THEN F32Lowest(m \div 2, e - 1)
    ELSE <<m, e>>

\* the float nearest to n * 2^(-e): 24 significant digits, ties to even
F32Round(n, e) ==
    LET k == BitLength(n) - 24
    IN  IF k <= 0 THEN F32Lowest(n, e)
        ELSE LET q == n \div Pow2(k)
                 r == n % Pow2(k)
                 half == Pow2(k - 1)
                 up == r > half \/ (r = half /\ q % 2 = 1)
             IN  F32Lowest(IF up THEN q + 1 ELSE q, e - k)

F32Zero == <<0, 0>>
F32One == <<1, 0>>
F32Ten == <<5, -1>>

\* the numerators of x and y over their common power of two
F32Aligned(x, y) ==
    LET e == IF x[2] < y[2] THEN y[2] ELSE x[2]
    IN  [x |-> IF x[1] = 0 THEN 0 ELSE x[1] * Pow2(e - x[2]),
         y |-> IF y[1] = 0 THEN 0 ELSE y[1] * Pow2(e - y[2]),
         e |-> e]

F32Le(x, y) == F32Aligned(x, y).x <= F32Aligned(x, y).y
F32Add(x, y) == LET a == F32Aligned(x, y) IN F32Round(a.x + a.y, a.e)
\* x - y for y <= x
F32Sub(x, y) == LET a == F32Aligned(x, y) IN F32Round(a.x - a.y, a.e)
F32Mul(x, y) == F32Round(x[1] * y[1], x[2] + y[2])
\* std::min and std::max
F32Min(x, y) == IF F32Le(y, x) /\ y # x THEN y ELSE x
F32Max(x, y) == IF F32Le(x, y) /\ y # x THEN y ELSE x

\* A crossfade with the weights of the two channels exchanged
MixedOutputSwapped(aValue, bValue, mix) ==
    F32Add(F32Mul(aValue, mix), F32Mul(bValue, F32Sub(F32One, mix)))

\* mixedOutput = aValue * (1.0f - mix) + bValue * mix
MixedOutput(aValue, bValue, mix) ==
    F32Add(F32Mul(aValue, F32Sub(F32One, mix)), F32Mul(bValue, mix))

\* the voltages of the four combiner outputs
Combiner(aValue, bValue, mix) ==
    [mixed |-> MixedOutput(aValue, bValue, mix),
     min |-> F32Min(aValue, bValue),
     max |-> F32Max(aValue, bValue),
     sum |-> F32Add(aValue, bValue),
     MIX_OUTPUT |-> F32Mul(MixedOutput(aValue, bValue, mix), F32Ten),
     MIN_OUTPUT |-> F32Mul(F32Min(aValue, bValue), F32Ten),
     MAX_OUTPUT |-> F32Mul(F32Max(aValue, bValue), F32Ten),
     SUM_OUTPUT |-> F32Mul(F32Add(aValue, bValue), F32Ten)]

\* channel values: 0, 3/64, 1/4, 1/2, 47/64, 1
CombinerValues == {F32Zero, <<3, 6>>, <<1, 2>>, <<1, 1>>, <<47, 6>>, F32One}
\* mix knob positions: 0, 0.15f, 1/4, 1/2, 0.7f, 1
CombinerMixes == {F32Zero, <<5033165, 25>>, <<1, 2>>, <<1, 1>>, <<11744051, 24>>, F32One}

CombineStep ==
    \E a \in CombinerValues, b \in CombinerValues, m \in CombinerMixes :
        /\ probe' = [aValue |-> a, bValue |-> b, mix |-> m,
                     out |-> Combiner(a, b, m), swapped |-> Combiner(b, a, m)]
        /\ UNCHANGED <<params, inputs, sampleTime, slopeA, slopeB, freezeAState,
                       freezeBState, prevFreezeAButton, prevFreezeBButton,
                       currentTime, prevAValue, prevBValue, outputs, lights,
                       localsA, localsB, watchA, trail, peer, comparally>>

NextCombiner == CombineStep

SpecCombiner == Init /\ [][NextCombiner]_vars

---------------------------------------------------------------------------
(* The comparator under a free input A and a free size knob of channel A.  *)
(* B, C and D have no input cable, so each reads the input of A, against a *)
(* window of its own: B's size is pulled below 0 by its size CV and        *)
(* floored, C's window is 0.1 V wide, D's is 1 V wide around 0.5 V.  The   *)
(* input levels lie on, between and beyond the thresholds of the 1 V and   *)
(* the 0.1 V window around 0 V.  trail holds the instance as the last call *)
(* found it, with the locals of the call before.                           *)

WindowLevels ==
    {QInt(-1), Q(-3, 5), Q(-2, 5), Q(-1, 10), Zero, Q(1, 10), Q(2, 5), Q(3, 5), One}

WindowSizes == {Zero, Q(1, 10), One}

WindowKnobs(size) ==
    [ComparallyDefaults EXCEPT !["A_SIZE_PARAM"] = size,
                               !["C_SIZE_PARAM"] = Q(1, 10),
                               !["D_SHIFT_PARAM"] = Q(1, 2)]

WindowPorts(in) ==
    [ComparallyNoInputs EXCEPT !["A_IN_INPUT"] = Cable(in),
                               !["B_SIZE_CV_INPUT"] = Cable(QInt(-5))]

NextWindow ==
    \E in \in WindowLevels, size \in WindowSizes :
        /\ ComparallyProcess(WindowKnobs(size), WindowPorts(in))
        /\ trail' = <<comparally>>
        /\ UNCHANGED <<params, inputs, sampleTime, slopeA, slopeB, freezeAState,
                       freezeBState, prevFreezeAButton, prevFreezeBButton,
                       currentTime, prevAValue, prevBValue, outputs, lights,
                       localsA, localsB, watchA, peer, probe>>

SpecWindow == Init /\ [][NextWindow]_vars

---------------------------------------------------------------------------
(* The pair logic under four free inputs: A at 0 V (inside its window) or  *)
(* 2 V (above it); B and C each without a cable (reading the channel       *)
(* before) or at 0 V or 2 V; D without a cable or at 2 V; every knob as    *)
(* the constructor leaves it.                                              *)
(* trail holds the instance as the last call found it.                     *)

PairLevels == {Zero, QInt(2)}

PairPorts == {Unplugged} \cup {Cable(v) : v \in PairLevels}

LastPorts == {Unplugged, Cable(QInt(2))}

NextPairs ==
    \E inA \in PairLevels, inB \in PairPorts, inC \in PairPorts, inD \in LastPorts :
        /\ ComparallyProcess(ComparallyDefaults,
               [ComparallyNoInputs EXCEPT !["A_IN_INPUT"] = Cable(inA),
                                          !["B_IN_INPUT"] = inB,
                                          !["C_IN_INPUT"] = inC,
                                          !["D_IN_INPUT"] = inD])
        /\ trail' = <<comparally>>
        /\ UNCHANGED <<params, inputs, sampleTime, slopeA, slopeB, freezeAState,
                       freezeBState, prevFreezeAButton, prevFreezeBButton,
                       currentTime, prevAValue, prevBValue, outputs, lights,
                       localsA, localsB, watchA, peer, probe>>

SpecPairs == Init /\ [][NextPairs]_vars

---------------------------------------------------------------------------
(* The claims about the trigger input and the pulses of a cycle.           *)

TrigA == inputs["A_TRIG_INPUT"]
Ticked == currentTime # Zero
ModeA == ToInt(params["A_TRIG_MODE_PARAM"])

\* C1: on any tick whose trigger input is disconnected, the channel ends the
\* tick with value, derivative and integral 0 and both pulses false.
C1_DisconnectedTickZero ==
    (Ticked /\ ~TrigA.connected) =>
        /\ slopeA.value = Zero
        /\ slopeA.derivative = Zero
        /\ slopeA.integral = Zero
        /\ ~slopeA.endPulse
        /\ ~slopeA.breakpointPulse

\* C2: after a tick with the trigger input disconnected, a tick that accepts
\* no trigger and sees no sync edge leaves the channel idle: value 0 and no
\* stage progress.
C2_IdleAfterDisconnect ==
    [][(Ticked /\ ~TrigA.connected /\ ~localsA'.triggerAccepted /\ ~localsA'.syncEdge)
        => (slopeA'.value = Zero /\ slopeA'.phase = slopeA.phase
            /\ slopeA'.rising = slopeA.rising)]_vars

\* The mode rule of the claim, on the stage and phase at the start of the tick
C3_Rule(mode, rising, phase) ==
    \/ mode = 0
    \/ mode = 1 /\ rising /\ QLt(phase, One)
    \/ mode = 2 /\ ~rising /\ QLt(phase, One)
    \/ mode = 3 /\ ~rising /\ ~QLt(phase, One)

\* C3: a restart is accepted exactly on a rising trigger edge (level high this
\* tick, low on the previous one) for which the mode rule holds on the state at
\* the start of the tick.
C3_AcceptancePolicy ==
    [][localsA'.triggerAccepted =
        (/\ High(inputs'["A_TRIG_INPUT"])
         /\ ~High(TrigA)
         /\ C3_Rule(ToInt(params'["A_TRIG_MODE_PARAM"]), slopeA.rising, slopeA.phase))]_vars

\* an edge accepted in CompletionOnly mode, and one rejected in it
C3_Witness ==
    /\ ModeA = 3
    /\ localsA.triggerEdge
    /\ localsA.triggerAccepted
    /\ slopeA.rising

\* The channel state the same tick produces when the trigger level stays low
C4_WithoutEdge ==
    {ProcessSlope(IdsA, slopeA,
                  [active |-> lights["A_ACTIVE_LIGHT"], end |-> lights["A_END_LIGHT"],
                   breakpoint |-> lights["A_BREAKPOINT_LIGHT"]],
                  sampleTime', freezeAState',
                  ChaosAmount(params'["CHAOS_A_PARAM"], inputs'["CHAOS_A_CV_INPUT"]),
                  currentTime', rnd, params',
                  [inputs' EXCEPT !["A_TRIG_INPUT"] = Cable(Zero)]).s :
        rnd \in TickDraws}

\* C4: a rising edge the mode gate rejects changes nothing: but for the edge
\* detector's memory, the channel state after the tick is the one the tick
\* produces with no edge.
C4_RejectedEdgeIgnored ==
    [][(localsA'.triggerEdge /\ ~localsA'.triggerAccepted)
        => (\E s \in C4_WithoutEdge : slopeA' = [s EXCEPT !.prevTrigger = TRUE])]_vars

\* a rejected edge on a tick that advanced the phase
C4_Witness ==
    /\ localsA.triggerEdge
    /\ ~localsA.triggerAccepted
    /\ localsA.advanced
    /\ slopeA.rising
    /\ QLt(Zero, slopeA.phase)

\* C5: in a full uninterrupted cycle the END output is high on exactly one
\* tick, the one on which the fall stage completes.
C5_OneEndPulse ==
    (watchA.stage = "done" /\ watchA.fromIdle) => (watchA.endTicks = 1)

\* C6: in a full uninterrupted cycle breakpointPulse steps from false to true
\* exactly once, before the completing tick.
C6_OneBreakpointRise ==
    (watchA.stage = "done" /\ watchA.fromIdle) => (watchA.bpRises = 1)

\* C7: in a full uninterrupted cycle the BREAKPOINT output is high on exactly
\* one tick.
C7_BreakpointSingleTick ==
    (watchA.stage = "done" /\ watchA.fromIdle) => (watchA.bpTicks = 1)

---------------------------------------------------------------------------
(* The claims about the period of a free-running or synced channel.        *)

Ceil(x) == -((-x[1]) \div x[2])

RiseTicks == Ceil(QDiv(localsA.riseTime, sampleTime))
FallTicks == Ceil(QDiv(localsA.fallTime, sampleTime))
NominalTicks == QDiv(QAdd(localsA.riseTime, localsA.fallTime), sampleTime)

\* the last sample of the trail equals the one n ticks before it
Repeats(n) == Len(trail) > n => trail[Len(trail)] = trail[Len(trail) - n]

SyncA == inputs["A_SYNC_INPUT"]

\* a rising edge of the sync level between the previous tick and this one
SyncRise == High(inputs'["A_SYNC_INPUT"]) /\ ~High(SyncA)

\* the stage the tick advances: rise after a restart, else the stage it found
StageTimeUsed ==
    IF localsA'.syncEdge \/ localsA'.triggerAccepted \/ slopeA.rising
    THEN localsA'.riseTime ELSE localsA'.fallTime

\* the interval between two edges, held to [0.01, 10]
Held(d) == IF QLt(d, Q(1, 100)) THEN Q(1, 100) ELSE IF QLt(QInt(10), d) THEN QInt(10) ELSE d

\* C9: on a sync rising edge at time t2 the timestamp becomes t2 and, when an
\* earlier edge at t1 was recorded, the estimate becomes t2 - t1 held to
\* [0.01, 10]; the first edge leaves the estimate alone; without an edge both
\* stay; and with sync connected the stage time used is the stage's time
\* multiplied by estimate / (riseTime + fallTime).
C9_SyncEstimate ==
    [][/\ SyncRise =>
            /\ slopeA'.lastSyncTime = currentTime'
            /\ slopeA'.syncPeriod =
                   IF QLt(Zero, slopeA.lastSyncTime)
                   THEN Held(QSub(currentTime', slopeA.lastSyncTime))
                   ELSE slopeA.syncPeriod
       /\ ~SyncRise =>
            /\ slopeA'.lastSyncTime = slopeA.lastSyncTime
            /\ slopeA'.syncPeriod = slopeA.syncPeriod
       /\ inputs'["A_SYNC_INPUT"].connected =>
            localsA'.envelopeTime =
                QMul(StageTimeUsed,
                     QDiv(slopeA'.syncPeriod, QAdd(localsA'.riseTime, localsA'.fallTime)))
      ]_vars

\* a second edge whose interval was cut to the upper limit
C9_Witness ==
    /\ localsA.syncEdge
    /\ slopeA.lastSyncTime = currentTime
    /\ slopeA.syncPeriod = QInt(10)
    /\ QLt(QInt(10), currentTime)

\* C10: when a sync edge arrives exactly one estimated period after the
\* previous one, the cycle that edge started has completed its fall.
C10_CompleteByNextEdge ==
    [][(/\ SyncRise
        /\ QLt(Zero, slopeA.lastSyncTime)
        /\ QSub(currentTime', slopeA.lastSyncTime) = slopeA.syncPeriod)
        => (~slopeA.rising /\ QLe(One, slopeA.phase))]_vars

---------------------------------------------------------------------------
(* The claims about sync priority, freeze, the combiner and the channel    *)
(* state.                                                                  *)

AtRest(s) == ~s.rising /\ s.phase = One /\ s.value = Zero

FrozenTickA == freezeAState' /\ ~inputs'["FREEZE_A_CV_INPUT"].connected

\* C12 (as the code has it): a frozen tick with the trigger cable in, no
\* accepted trigger and no sync edge leaves phase, stage and value as the
\* previous tick left them.
C12_FrozenHoldsPhase ==
    [][(FrozenTickA /\ inputs'["A_TRIG_INPUT"].connected
        /\ ~localsA'.triggerAccepted /\ ~localsA'.syncEdge)
        => (slopeA'.phase = slopeA.phase /\ slopeA'.rising = slopeA.rising
            /\ slopeA'.value = slopeA.value)]_vars

\* frozen in mid-stage for a second tick in a row
C12_Witness ==
    /\ freezeAState
    /\ ~inputs["FREEZE_A_CV_INPUT"].connected
    /\ TrigA.connected
    /\ ~localsA.advanced
    /\ ~localsA.triggerAccepted
    /\ QLt(Zero, slopeA.phase) /\ QLt(slopeA.phase, One)
    /\ params["FREEZE_A_BUTTON_PARAM"] = Zero

\* C12 (as stated): every frozen tick leaves phase as the previous tick left it.
C12_FrozenPhaseUnchanged ==
    [][FrozenTickA => slopeA'.phase = slopeA.phase]_vars

\* the freeze flag after a tick, from the flag and the button memory before it
FreezeRule(state, prevButton, button, port) ==
    LET toggled == IF QLt(Q(1, 2), button) /\ ~prevButton THEN ~state ELSE state
    IN  IF port.connected /\ QLt(QInt(2), port.voltage) THEN TRUE
        ELSE IF port.connected /\ QLt(port.voltage, QInt(2)) THEN FALSE
        ELSE toggled

\* C13: with a cable in the freeze CV input the flag after the tick is true
\* above 2 V and false below 2 V; at exactly 2 V, and with no cable, it is
\* the flag as the button-toggle step left it.  For both channels.
C13_FreezeCvRule ==
    [][/\ freezeAState' = FreezeRule(freezeAState, prevFreezeAButton,
                                     params'["FREEZE_A_BUTTON_PARAM"],
                                     inputs'["FREEZE_A_CV_INPUT"])
       /\ freezeBState' = FreezeRule(freezeBState, prevFreezeBButton,
                                     params'["FREEZE_B_BUTTON_PARAM"],
                                     inputs'["FREEZE_B_CV_INPUT"])]_vars

\* both channels frozen with exactly 2 V on their freeze CV inputs, channel
\* A's button pressed
C13_Witness ==
    /\ inputs["FREEZE_A_CV_INPUT"] = Cable(QInt(2))
    /\ freezeAState
    /\ prevFreezeAButton
    /\ inputs["FREEZE_B_CV_INPUT"] = Cable(QInt(2))
    /\ freezeBState

Pressed(P) == QLt(Q(1, 2), P["FREEZE_A_BUTTON_PARAM"])

\* C14: with no freeze CV cable, on a tick of this instance the flag of
\* channel A flips exactly when this instance's own button is pressed now and
\* was released on this instance's previous tick.
C14_OwnButtonEdgeOnly ==
    [][(currentTime' # currentTime /\ ~inputs'["FREEZE_A_CV_INPUT"].connected)
        => ((freezeAState' # freezeAState) <=> (Pressed(params') /\ ~Pressed(params)))]_vars

ValueA == slopeA.value
ValueB == slopeB.value
MixM == params["MIX_PARAM"]
Times10(x) == QMul(x, QInt(10))

\* C15: after every tick the four combiner outputs are ten times
\* A*(1-m) + B*m, min(A, B), max(A, B) and A + B, for that tick's channel
\* values A, B and mix knob m.
C15_Combiner ==
    Ticked =>
        /\ outputs["MIX_OUTPUT"] =
               Times10(QAdd(QMul(ValueA, QSub(One, MixM)), QMul(ValueB, MixM)))
        /\ outputs["MIN_OUTPUT"] = Times10(IF QLe(ValueA, ValueB) THEN ValueA ELSE ValueB)
        /\ outputs["MAX_OUTPUT"] = Times10(IF QLe(ValueA, ValueB) THEN ValueB ELSE ValueA)
        /\ outputs["SUM_OUTPUT"] = Times10(QAdd(ValueA, ValueB))

\* both channels under way with different values and an uneven mix
C15_Witness ==
    /\ Ticked
    /\ QLt(Zero, ValueB) /\ QLt(ValueB, ValueA) /\ QLt(ValueA, One)
    /\ MixM = Q(1, 4)
    /\ localsA.advanced /\ localsB.advanced

\* what the panel gives channel A, and what it gives channel B
ParamsOfA == {"A_RISE_PARAM", "A_FALL_PARAM", "A_CURVE_PARAM", "A_BREAKPOINT_PARAM",
              "A_RATE_PARAM", "A_CYCLE_PARAM", "A_TRIG_MODE_PARAM", "CHAOS_A_PARAM",
              "FREEZE_A_BUTTON_PARAM"}
InputsOfA == {"A_TRIG_INPUT", "A_RISE_CV_INPUT", "A_FALL_CV_INPUT", "A_CURVE_CV_INPUT",
              "A_BREAKPOINT_CV_INPUT", "A_RATE_CV_INPUT", "A_SYNC_INPUT",
              "CHAOS_A_CV_INPUT", "FREEZE_A_CV_INPUT"}
ParamsOfB == {"B_RISE_PARAM", "B_FALL_PARAM", "B_CURVE_PARAM", "B_BREAKPOINT_PARAM",
              "B_RATE_PARAM", "B_CYCLE_PARAM", "B_TRIG_MODE_PARAM", "CHAOS_B_PARAM",
              "FREEZE_B_BUTTON_PARAM"}
InputsOfB == {"B_TRIG_INPUT", "B_RISE_CV_INPUT", "B_FALL_CV_INPUT", "B_CURVE_CV_INPUT",
              "B_BREAKPOINT_CV_INPUT", "B_RATE_CV_INPUT", "B_SYNC_INPUT",
              "CHAOS_B_CV_INPUT", "FREEZE_B_CV_INPUT"}

\* params and inputs with everything outside the set S at its default
OnlyParams(P, S) == [k \in ParamIds |-> IF k \in S THEN P[k] ELSE DefaultParams[k]]
OnlyInputs(I, S) == [k \in InputIds |-> IF k \in S THEN I[k] ELSE Unplugged]

\* the channel's state after the tick, computed from the channel's own state
\* before it and from the panel restricted to the channel's own knobs and jacks
OwnStep(ids, s, frozen, prevButton, button, cv, chaos, chaosCv, P, I, rnd) ==
    ProcessSlope(ids, s,
                 [active |-> lights[ids.activeLight], end |-> lights[ids.endLight],
                  breakpoint |-> lights[ids.breakpointLight]],
                 sampleTime', FreezeRule(frozen, prevButton, P[button], I[cv]),
                 ChaosAmount(P[chaos], I[chaosCv]), currentTime', rnd, P, I).s

\* C18: on every tick, channel A's state, freeze flag and own outputs are
\* what A's own previous state and A's own knobs, jacks and draws give,
\* whatever channel B is given; and the same for B.
C18_ChannelsIndependent ==
    [][currentTime' # currentTime =>
        /\ freezeAState' = FreezeRule(freezeAState, prevFreezeAButton,
                                      params'["FREEZE_A_BUTTON_PARAM"],
                                      inputs'["FREEZE_A_CV_INPUT"])
        /\ \E rnd \in TickDraws :
             slopeA' = OwnStep(IdsA, slopeA, freezeAState, prevFreezeAButton,
                               "FREEZE_A_BUTTON_PARAM", "FREEZE_A_CV_INPUT",
                               "CHAOS_A_PARAM", "CHAOS_A_CV_INPUT",
                               OnlyParams(params', ParamsOfA),
                               OnlyInputs(inputs', InputsOfA), rnd)
        /\ outputs'["A_SLOPE_OUTPUT"] = Times10(slopeA'.value)
        /\ outputs'["A_DERIVATIVE_OUTPUT"] = QMul(slopeA'.derivative, QInt(5))
        /\ outputs'["A_INTEGRAL_OUTPUT"] = QMul(slopeA'.integral, QInt(2))
        /\ outputs'["A_BREAKPOINT_OUTPUT"] = Pulse(slopeA'.breakpointPulse)
        /\ outputs'["A_END_OUTPUT"] = Pulse(slopeA'.endPulse)
        /\ freezeBState' = FreezeRule(freezeBState, prevFreezeBButton,
                                      params'["FREEZE_B_BUTTON_PARAM"],
                                      inputs'["FREEZE_B_CV_INPUT"])
        /\ slopeB' = OwnStep(IdsB, slopeB, freezeBState, prevFreezeBButton,
                             "FREEZE_B_BUTTON_PARAM", "FREEZE_B_CV_INPUT",
                             "CHAOS_B_PARAM", "CHAOS_B_CV_INPUT",
                             OnlyParams(params', ParamsOfB),
                             OnlyInputs(inputs', InputsOfB), QuietDraws)
        /\ outputs'["B_SLOPE_OUTPUT"] = Times10(slopeB'.value)
        /\ outputs'["B_DERIVATIVE_OUTPUT"] = QMul(slopeB'.derivative, QInt(5))
        /\ outputs'["B_INTEGRAL_OUTPUT"] = QMul(slopeB'.integral, QInt(2))
        /\ outputs'["B_BREAKPOINT_OUTPUT"] = Pulse(slopeB'.breakpointPulse)
        /\ outputs'["B_END_OUTPUT"] = Pulse(slopeB'.endPulse)]_vars

\* channel A in mid-rise after a trigger while channel B, slowed by its rate
\* CV, runs its own stage
C18_Witness ==
    /\ Ticked
    /\ localsA.advanced /\ localsB.advanced
    /\ slopeA.rising /\ QLt(Zero, slopeA.phase)
    /\ inputs["B_RATE_CV_INPUT"].connected
    /\ localsB.riseTime # localsA.riseTime
    /\ slopeB.phase # slopeA.phase

\* C16: after every tick on which channel A is advanced, its derivative is
\* (value - previousValue) / deltaTime, previousValue being the value the
\* channel held at the end of the tick before.
C16_BackwardDifference ==
    [][(currentTime' # currentTime /\ localsA'.advanced) =>
          slopeA'.derivative =
              QDiv(QSub(slopeA'.value, slopeA.value), sampleTime')]_vars

\* C17: for every curvature in [-1, 1] the shaper sends phase 0 to 0 and
\* phase 1 to 1, and at curvature 0 it returns the phase it is given; so
\* does the rawPhase that processSlope takes from it.
C17_CurveEndpoints ==
    /\ QLe(QInt(-1), probe.curve) /\ QLe(probe.curve, One)
    /\ probe.phase = Zero => (probe.shaped = Zero /\ probe.raw = Zero)
    /\ probe.phase = One => (probe.shaped = One /\ probe.raw = One)
    /\ probe.curve = Zero => (probe.shaped = probe.phase /\ probe.raw = probe.phase)

\* phase 1 shaped at a curvature whose exponent, 1 + 8 * 3/32, is not integral
C17_Witness ==
    /\ probe.phase = One
    /\ probe.curve = Q(3, 32)
    /\ probe.shaped = One

\* C19: before the first tick each channel has phase 0, rising true and
\* value 0, and channel A, with its trigger cable in, the level low and the
\* channel not frozen, ends the first tick with value 0.
C19_StartsRisingAtZero ==
    /\ ~Ticked =>
          /\ slopeA.phase = Zero /\ slopeA.rising /\ slopeA.value = Zero
          /\ slopeB.phase = Zero /\ slopeB.rising /\ slopeB.value = Zero
    /\ (currentTime = sampleTime /\ Ticked /\ TrigA.connected /\ ~High(TrigA)
          /\ ~freezeAState) => slopeA.value = Zero

PhaseInRange(s) ==
    /\ QLe(Zero, s.phase) /\ QLe(s.phase, One)
    /\ s.rising => QLt(s.phase, One)
    /\ s.phase = One => s.value = Zero

\* C20 (as the code has it): between ticks the phase of each channel is in
\* [0, 1]; it is strictly below 1 while rising, and a falling channel has
\* phase 1 only at rest, with value 0.
C20_PhaseRange == PhaseInRange(slopeA) /\ PhaseInRange(slopeB)

\* channel A at rest after a tick that advanced it through the end of a fall
C20_Witness ==
    /\ Ticked
    /\ localsA.advanced /\ localsA.endPulse
    /\ AtRest(slopeA)

\* C20 (as stated): between ticks the phase of each channel is in [0, 1),
\* rising or falling.
C20_PhaseBelowOne ==
    /\ QLe(Zero, slopeA.phase) /\ QLt(slopeA.phase, One)
    /\ QLe(Zero, slopeB.phase) /\ QLt(slopeB.phase, One)

---------------------------------------------------------------------------
(* The claims about the latches, the chaos seed, the integral, the clamps, *)
(* the frozen tick, the rest state and the sync restart.                   *)

\* the channel state the last call started from, and "a call has been made"
Before == trail[1]
Called == Ticked /\ Len(trail) = 1

BreakpointCleared == Called /\ Before.breakpointPulse /\ ~slopeA.breakpointPulse

\* C21 (as the code has it): breakpointPulse goes from true to false only on
\* a tick on which the fall stage completes or on a tick whose trigger input
\* has no cable; an accepted trigger, a sync edge or a freeze does not clear it.
C21_BreakpointClearedAtCompletionOrDisconnect ==
    BreakpointCleared =>
        \/ localsA.endPulse /\ localsA.advanced /\ ~Before.rising
        \/ ~TrigA.connected

\* the latch, set when the tick began, cleared by the fall completing on it
C21_Witness ==
    /\ BreakpointCleared
    /\ TrigA.connected
    /\ localsA.endPulse /\ ~Before.rising

\* C21 (as stated): breakpointPulse goes from true to false only on a tick
\* on which the fall stage completes.
C21_BreakpointClearedOnlyAtCompletion ==
    BreakpointCleared => (localsA.endPulse /\ localsA.advanced /\ ~Before.rising)

CycleOnA == QLt(Q(1, 2), params["A_CYCLE_PARAM"])

\* the fall stage completed on the last call and the channel started over
WrappedA ==
    /\ localsA.advanced /\ localsA.endPulse
    /\ CycleOnA /\ ~SyncA.connected

\* C22: the chaos seed is in [-1, 1] in every state, and a call changes it
\* only if it accepted a trigger, saw a sync edge, or completed a fall with
\* cycling on and no sync cable; disconnected-reset ticks, rise-to-fall
\* transitions, idle ticks and frozen ticks without an edge leave it alone.
C22_SeedChangesAtCycleStart ==
    /\ QLe(QInt(-1), slopeA.chaosMod) /\ QLe(slopeA.chaosMod, One)
    /\ (Called /\ slopeA.chaosMod # Before.chaosMod) =>
          (localsA.triggerAccepted \/ localsA.syncEdge \/ WrappedA)

\* a seed redrawn by the natural wraparound alone
C22_Witness ==
    /\ Called /\ slopeA.chaosMod # Before.chaosMod
    /\ ~localsA.triggerAccepted /\ ~localsA.syncEdge
    /\ WrappedA /\ slopeA.rising

\* seeds and draws of a second run
OtherSeeds == {QInt(-1), Q(-1, 2), Zero, Q(1, 2), Q(3, 4)}
OtherDraws == {[trigger |-> Zero, sync |-> Zero, wrap |-> Q(1, 8)],
               [trigger |-> Q(7, 8), sync |-> Q(1, 2), wrap |-> Q(1, 2)]}

ChaosAmountA ==
    ChaosAmount(params["CHAOS_A_PARAM"], inputs["CHAOS_A_CV_INPUT"])

\* a channel state without its seed
Seedless(s) == [f \in (DOMAIN s) \ {"chaosMod"} |-> s[f]]

\* the last call of processSlope for channel A, made again from the state s
Replay(s, rnd) ==
    ProcessSlope(IdsA, s,
                 [active |-> Zero, end |-> Zero, breakpoint |-> Zero],
                 sampleTime, freezeAState, ChaosAmountA, currentTime, rnd,
                 params, inputs)

\* C23: on a call with chaosAmount = 0, the same call made from the same
\* channel state with any other seed and any other draws leaves the same
\* phase, rising, value, derivative, integral, breakpointPulse and end pulse
\* (every field but the seed); so two runs that differ in their seeds only
\* agree on these at every tick.
C23_SeedWithoutEffectAtZero ==
    (Called /\ ChaosAmountA = Zero) =>
        \A c \in OtherSeeds, rnd \in OtherDraws :
            LET again == Replay([Before EXCEPT !.chaosMod = c], rnd)
            IN  /\ Seedless(again.s) = Seedless(slopeA)
                /\ again.locals = localsA

\* an advanced call at amount 0 (knob 1/2, pulled down by the CV) from a
\* state holding a non-zero seed, the channel in mid-stage
C23_Witness ==
    /\ Called /\ ChaosAmountA = Zero
    /\ params["CHAOS_A_PARAM"] = Q(1, 2)
    /\ localsA.advanced
    /\ Before.chaosMod # Zero
    /\ QLt(Zero, slopeA.phase) /\ QLt(slopeA.phase, One)

\* integral_after = integral_before + value_after * deltaTime
Accumulated(before) ==
    slopeA.integral = QAdd(before, QMul(slopeA.value, sampleTime))

\* C24 (as the code has it): with the trigger cable in, a call that is not
\* frozen adds value * deltaTime to the integral and a frozen call leaves
\* it, so that it never decreases; a call without the trigger cable first
\* empties it.
C24_IntegralAccumulatesWhileConnected ==
    Called =>
        /\ (TrigA.connected /\ localsA.advanced) => Accumulated(Before.integral)
        /\ (TrigA.connected /\ ~localsA.advanced) => slopeA.integral = Before.integral
        /\ TrigA.connected => QLe(Before.integral, slopeA.integral)
        /\ (~TrigA.connected /\ localsA.advanced) => Accumulated(Zero)
        /\ (~TrigA.connected /\ ~localsA.advanced) => slopeA.integral = Zero
        /\ localsA.advanced = ~freezeAState
        /\ QLe(Zero, slopeA.value)

\* an accepted trigger on a running call that adds to a non-empty integral
C24_Witness ==
    /\ Called /\ TrigA.connected /\ localsA.advanced
    /\ localsA.triggerAccepted
    /\ QLt(Zero, Before.integral) /\ QLt(Before.integral, slopeA.integral)

\* C24 (as stated): every call that is not frozen adds value * deltaTime to
\* the integral, every frozen call leaves it, and it never decreases.
C24_IntegralNeverReset ==
    Called =>
        /\ localsA.advanced => Accumulated(Before.integral)
        /\ ~localsA.advanced => slopeA.integral = Before.integral
        /\ QLe(Before.integral, slopeA.integral)

Within(x, lo, hi) == QLe(lo, x) /\ QLe(x, hi)

\* the clamps a call applies, the stage time it advances phase by left aside
ClampsHold ==
    /\ Within(slopeA.syncPeriod, Q(1, 100), QInt(10))
    /\ Within(ChaosAmountA, Zero, One)
    /\ lights["CHAOS_A_LIGHT"] = (IF Called THEN ChaosAmountA ELSE Zero)
    /\ (Called /\ localsA.advanced) =>
          /\ Within(localsA.riseTime, Q(1, 1000), QInt(20))
          /\ Within(localsA.fallTime, Q(1, 1000), QInt(20))
          /\ Within(localsA.breakpoint, Zero, Q(9999, 10000))
          /\ Within(localsA.curve, QInt(-1), One)

\* C25 (as the code has it): rise time and fall time are clamped to
\* [0.001, 20], the sync period to [0.01, 10], the breakpoint fraction to
\* [0, 0.9999], the curvature (also after chaos) to [-1, 1] and the chaos
\* amount to [0, 1]; the stage time a call advances phase by is the clamped
\* time of its stage without a sync cable, and with one it is that time
\* rescaled, positive and at most the sync period.
C25_ClampedBeforeRescaling ==
    /\ ClampsHold
    /\ (Called /\ localsA.advanced) =>
          /\ QLt(Zero, localsA.envelopeTime)
          /\ ~SyncA.connected =>
                Within(localsA.envelopeTime, Q(1, 1000), QInt(20))
          /\ SyncA.connected => QLe(localsA.envelopeTime, slopeA.syncPeriod)

\* a fall at the shortest time beside a rise of 5 s, under a sync cable: the
\* stage time used is below 0.001 s
C25_Witness ==
    /\ Called /\ localsA.advanced /\ SyncA.connected
    /\ localsA.riseTime = QInt(5) /\ localsA.fallTime = Q(1, 1000)
    /\ ~Before.rising /\ ~localsA.syncEdge /\ ~localsA.triggerAccepted
    /\ QLt(localsA.envelopeTime, Q(1, 1000))

\* C25 (as stated): the clamps hold, and the stage time a call advances
\* phase by is within [0.001, 20].
C25_StageTimeUsedClamped ==
    /\ ClampsHold
    /\ (Called /\ localsA.advanced) =>
          Within(localsA.envelopeTime, Q(1, 1000), QInt(20))

\* a channel state without its two edge-detector memories
Edgeless(s) == [f \in (DOMAIN s) \ {"prevTrigger", "prevSync"} |-> s[f]]

\* the seed an accepted edge of the last call drew (the sync block runs last)
EdgeSeeds ==
    {ChaosDraw(IF localsA.syncEdge THEN d.sync ELSE d.trigger) : d \in EventDraws}

\* C26: a frozen call ends after the trigger and sync blocks.  An accepted
\* trigger or a sync edge sets phase = 0, rising = true, value = 0 and draws
\* a new seed; both edge-detector memories take the levels of the call;
\* phase is not advanced; with the trigger cable in, integral, derivative,
\* breakpointPulse and endPulse stay; and with the cable in and no accepted
\* trigger and no sync edge nothing changes but the two memories.
C26_FrozenTickStopsAfterEdges ==
    (Called /\ freezeAState) =>
        /\ ~localsA.advanced
        /\ slopeA.prevTrigger = High(TrigA)
        /\ slopeA.prevSync = High(SyncA)
        /\ (localsA.triggerAccepted \/ localsA.syncEdge) =>
              /\ slopeA.phase = Zero /\ slopeA.rising /\ slopeA.value = Zero
              /\ slopeA.chaosMod \in EdgeSeeds
        /\ TrigA.connected =>
              /\ slopeA.integral = Before.integral
              /\ slopeA.derivative = Before.derivative
              /\ slopeA.breakpointPulse = Before.breakpointPulse
              /\ slopeA.endPulse = Before.endPulse
        /\ (TrigA.connected /\ ~localsA.triggerAccepted /\ ~localsA.syncEdge) =>
              Edgeless(slopeA) = Edgeless(Before)

\* a frozen call that accepted a trigger in mid-fall: restarted, the seed
\* redrawn, the integral and the latch as they were
C26_Witness ==
    /\ Called /\ freezeAState /\ TrigA.connected
    /\ localsA.triggerAccepted /\ ~localsA.syncEdge
    /\ ~Before.rising /\ QLt(Zero, Before.phase) /\ Before.breakpointPulse
    /\ slopeA.phase = Zero /\ slopeA.rising
    /\ slopeA.chaosMod # Before.chaosMod
    /\ QLt(Zero, slopeA.integral)

\* the last call was made with cycling off or with the sync cable in
RestsAtEnd == ~CycleOnA \/ SyncA.connected

\* C27: with cycling off or the sync cable in, a call on which the fall
\* completes leaves rising = false, phase = 1, value = 0; and so does every
\* call that starts there, with the trigger cable in and without an
\* accepted trigger or a sync edge, leaving the integral as it was and the
\* breakpoint latch clear.
C27_RestsAtIdle ==
    (Called /\ RestsAtEnd) =>
        /\ (localsA.advanced /\ localsA.endPulse) => AtRest(slopeA)
        /\ (AtRest(Before) /\ TrigA.connected
              /\ ~localsA.triggerAccepted /\ ~localsA.syncEdge) =>
              /\ AtRest(slopeA)
              /\ slopeA.integral = Before.integral
              /\ ~slopeA.breakpointPulse

\* an idle call that is not frozen, cycling off, after a cycle that left
\* something in the integral
C27_Witness ==
    /\ Called /\ ~CycleOnA /\ ~SyncA.connected /\ TrigA.connected
    /\ AtRest(Before) /\ AtRest(slopeA)
    /\ localsA.advanced /\ ~localsA.triggerAccepted
    /\ QLt(Zero, slopeA.integral)

\* the stage the last call advanced: the rise if the call found the channel
\* rising or restarted it
AdvancedRise ==
    /\ localsA.advanced
    /\ Before.rising \/ localsA.triggerAccepted \/ localsA.syncEdge \/ ~TrigA.connected

RiseCompleted == Called /\ AdvancedRise /\ ~slopeA.rising
FallCompleted == Called /\ localsA.advanced /\ localsA.endPulse

\* C28: at every curvature, the call on which the rise completes leaves the
\* channel falling with phase 0 and value 1, the call on which the fall
\* completes leaves value 0, and value is within [0, 1] in every state.
C28_ZeroOneZero ==
    /\ RiseCompleted => (slopeA.phase = Zero /\ slopeA.value = One)
    /\ FallCompleted => slopeA.value = Zero
    /\ Within(slopeA.value, Zero, One)

\* the top of a rise that the call before had started, at a curvature whose
\* exponent, 1 + 8 * 3/32, is not integral
C28_Witness ==
    /\ RiseCompleted /\ Before.rising
    /\ localsA.curve = Q(3, 32)
    /\ slopeA.phase = Zero /\ slopeA.value = One

\* the sync cable was in on the last call and its level rose to high
SyncRose == Called /\ SyncA.connected /\ High(SyncA) /\ ~Before.prevSync

\* the seed a sync edge of the last call drew
SyncSeeds == {ChaosDraw(d.sync) : d \in EventDraws}

\* the state an accepted trigger leaves (phase = 0, rising, value = 0, the
\* seed drawn), with the edge memories at the levels of the last call and the
\* sync period and timestamp as the last call left them
RestartedBySync ==
    [Restart(Before, Q(7, 8)) EXCEPT !.prevTrigger = High(TrigA),
                                     !.prevSync = TRUE,
                                     !.syncPeriod = slopeA.syncPeriod,
                                     !.lastSyncTime = currentTime]

\* C30: a call with the sync cable in and the sync level risen to high ends
\* as the same call made without an edge from the restarted state (phase = 0,
\* rising, value = 0, the new seed), with lastSyncTime = currentTime and the
\* period measured, in every trigger mode, stage and freeze state; a call
\* without the sync cable sees no sync edge, leaves syncPeriod and
\* lastSyncTime alone, advances by the unscaled stage time, and when frozen
\* with no accepted trigger leaves phase, rising, value and the seed alone.
C30_SyncRestarts ==
    /\ SyncRose =>
          /\ localsA.syncEdge
          /\ slopeA.lastSyncTime = currentTime
          /\ slopeA.syncPeriod =
                MeasurePeriod(Before.syncPeriod, Before.lastSyncTime, currentTime)
          /\ slopeA.chaosMod \in SyncSeeds
          /\ slopeA = Replay(RestartedBySync, CHOOSE d \in EventDraws : TRUE).s
          /\ freezeAState =>
                slopeA.phase = Zero /\ slopeA.rising /\ slopeA.value = Zero
    /\ (Called /\ ~SyncA.connected) =>
          /\ ~localsA.syncEdge
          /\ ~slopeA.prevSync
          /\ slopeA.syncPeriod = Before.syncPeriod
          /\ slopeA.lastSyncTime = Before.lastSyncTime
          /\ localsA.advanced =>
                localsA.envelopeTime =
                    (IF Before.rising \/ localsA.triggerAccepted \/ ~TrigA.connected
                     THEN localsA.riseTime ELSE localsA.fallTime)
          /\ (freezeAState /\ TrigA.connected /\ ~localsA.triggerAccepted) =>
                Edgeless(slopeA) = Edgeless(Before)

\* a sync edge in the fall, in trigger mode 1 with the trigger low and the
\* channel not frozen: the seed of the sync draw and the period measured anew
C30_Witness ==
    /\ SyncRose /\ ~freezeAState /\ ModeA = 1
    /\ TrigA.connected /\ ~High(TrigA)
    /\ ~Before.rising /\ QLt(Zero, Before.phase)
    /\ slopeA.lastSyncTime = currentTime
    /\ slopeA.syncPeriod # Before.syncPeriod
    /\ slopeA.chaosMod = Q(3, 4)

\* the last call was frozen, had no trigger cable, accepted a trigger or saw
\* a sync edge
InterruptedA ==
    \/ freezeAState
    \/ ~TrigA.connected
    \/ localsA.triggerAccepted
    \/ localsA.syncEdge

\* enough calls are still to come for the longest cycle
CallsRemain ==
    currentTime \in {QMul(QInt(k), ProgressDt) : k \in 0..(MaxProgressTicks - CycleTicks)}

\* C29: from every state in which the channel is in its rise, the rise ends,
\* and from every state in which it is in its fall, the fall completes,
\* unless a call in between is frozen, has no trigger cable, accepts a
\* trigger or sees a sync edge; for the longest and the shortest stage times.
C29_StagesEnd ==
    /\ (Called /\ CallsRemain /\ slopeA.rising)
          ~> (~slopeA.rising \/ InterruptedA)
    /\ (Called /\ CallsRemain /\ ~slopeA.rising /\ slopeA.phase # One)
          ~> (FallCompleted \/ InterruptedA)

\* the second call of a rise of 20 s, nothing having happened on it
C29_Witness ==
    /\ Called /\ CallsRemain /\ ~InterruptedA
    /\ slopeA.rising /\ Before.rising
    /\ localsA.riseTime = QInt(20)
    /\ QLt(Before.phase, slopeA.phase) /\ QLt(slopeA.phase, One)


---------------------------------------------------------------------------
(* The claims about the edge memory, the breakpoint latch, the ranges, the  *)
(* frames of restart and disconnect, and the combiner.                      *)

Replugged == Ticked /\ Len(trail) = 3
TrigBefore == trail[2]
TrigBeforeThat == trail[3]

\* C31: after every call prevTrigger is the trigger level that call sampled,
\* and it is false after every call without a trigger cable; a call with the
\* cable in and the level high that follows a call without the cable sees a
\* rising edge, whatever the level was before the cable was pulled.
C31_MemoryFollowsLevel ==
    Replugged =>
        /\ slopeA.prevTrigger = High(TrigA)
        /\ ~TrigA.connected => ~slopeA.prevTrigger
        /\ localsA.triggerEdge = (High(TrigA) /\ ~Before.prevTrigger)
        /\ (TrigA.connected /\ High(TrigA) /\ ~TrigBefore.connected) =>
              localsA.triggerEdge

\* high, then no cable, then high again: the third call sees a rising edge
C31_Witness ==
    /\ Replugged
    /\ TrigBeforeThat.connected /\ High(TrigBeforeThat)
    /\ ~TrigBefore.connected
    /\ TrigA.connected /\ High(TrigA)
    /\ localsA.triggerEdge /\ slopeA.prevTrigger


\* the state the last call advanced from: the state it started from, after
\* the disconnected reset and after a restart by an accepted trigger or a
\* sync edge (the seed aside)
Restarted == localsA.triggerAccepted \/ localsA.syncEdge \/ ~TrigA.connected
RisingAtAdvance == Before.rising \/ Restarted
PhaseAtAdvance == IF Restarted THEN Zero ELSE Before.phase
LatchAtAdvance == Before.breakpointPulse /\ TrigA.connected

\* the cycle phase of the last call: the advanced phase, plus 1 in the fall
CyclePhaseA ==
    LET phase == QAdd(PhaseAtAdvance, QDiv(sampleTime, localsA.envelopeTime))
    IN  IF RisingAtAdvance THEN phase ELSE QAdd(One, phase)

\* the last call got past the freeze test and its cycle phase is at or
\* beyond the breakpoint
BeyondBreakpoint ==
    /\ localsA.advanced
    /\ QLe(QMul(localsA.breakpoint, QInt(2)), CyclePhaseA)

\* C32 (as the code has it): the breakpoint fires on exactly the calls that
\* get past the freeze test with the cycle phase at or beyond twice the
\* breakpoint and the latch not set; a call that fires leaves the latch set
\* unless the fall completes on it; a latch that is set stays set over every
\* call on which the fall does not complete and the trigger cable is in, and
\* the breakpoint does not fire on such a call.
C32_LatchFiresOnce ==
    Called =>
        /\ localsA.breakpointTriggered = (BeyondBreakpoint /\ ~LatchAtAdvance)
        /\ (localsA.breakpointTriggered /\ ~FallCompleted) => slopeA.breakpointPulse
        /\ LatchAtAdvance =>
              /\ ~localsA.breakpointTriggered
              /\ ~FallCompleted => slopeA.breakpointPulse

\* the breakpoint at 3/4 fires in the middle of the fall and latches
C32_Witness ==
    /\ Called /\ localsA.breakpointTriggered
    /\ localsA.breakpoint = Q(3, 4)
    /\ ~Before.rising /\ ~slopeA.rising /\ slopeA.phase = Q(1, 2)
    /\ ~Before.breakpointPulse /\ slopeA.breakpointPulse

\* C32 (as stated): the breakpoint fires on exactly the calls past the freeze
\* test with the cycle phase at or beyond twice the breakpoint and the latch
\* not set when the call began, and a set latch stays set over every call on
\* which the fall does not complete.
C32_LatchHeldUntilCompletion ==
    Called =>
        /\ localsA.breakpointTriggered = (BeyondBreakpoint /\ ~Before.breakpointPulse)
        /\ (Before.breakpointPulse /\ ~FallCompleted) => slopeA.breakpointPulse


ValueInRange(s) == Within(s.phase, Zero, One) /\ Within(s.value, Zero, One)

\* C33: between calls the phase and the value of each channel are in [0, 1],
\* the MIX, MIN and MAX outputs are in [0, 10] V and the SUM output is in
\* [0, 20] V.
C33_Ranges ==
    /\ ValueInRange(slopeA) /\ ValueInRange(slopeB)
    /\ Within(outputs["MIX_OUTPUT"], Zero, QInt(10))
    /\ Within(outputs["MIN_OUTPUT"], Zero, QInt(10))
    /\ Within(outputs["MAX_OUTPUT"], Zero, QInt(10))
    /\ Within(outputs["SUM_OUTPUT"], Zero, QInt(20))

\* both channels at the top on the same call, channel B after an overshoot,
\* channel A under the steepest curve: SUM at 20 V
C33_Witness ==
    /\ Called
    /\ localsA.curve = One /\ Before.value = Q(511, 512)
    /\ ValueA = One /\ ValueB = One
    /\ outputs["SUM_OUTPUT"] = QInt(20) /\ outputs["MIN_OUTPUT"] = QInt(10)


CarryCalled == Ticked /\ Len(trail) = 3
LatchCarried == CarryCalled /\ trail[2]
LatchCarriedCableIn == CarryCalled /\ trail[3]

\* an accepted trigger or a sync edge on the last call, the trigger cable in
RestartedA ==
    CarryCalled /\ TrigA.connected /\ (localsA.triggerAccepted \/ localsA.syncEdge)

\* the state the last call started from with phase, rising, value and the
\* seed as a restart sets them, the edge memories at the levels of the call
\* and the sync period and timestamp as the call left them
OnlyRestarted ==
    [Before EXCEPT !.phase = Zero, !.rising = TRUE, !.value = Zero,
                   !.chaosMod = slopeA.chaosMod,
                   !.prevTrigger = High(TrigA), !.prevSync = High(SyncA),
                   !.syncPeriod = slopeA.syncPeriod,
                   !.lastSyncTime = slopeA.lastSyncTime]

\* the restart of the last call left the rest of the channel state alone
RestartFrame ==
    RestartedA =>
        /\ slopeA = Replay(OnlyRestarted, CHOOSE d \in EventDraws : TRUE).s
        /\ slopeA.integral = QAdd(Before.integral, QMul(slopeA.value, sampleTime))
        /\ Before.breakpointPulse =>
              slopeA.breakpointPulse /\ ~localsA.breakpointTriggered

\* C34 (as the code has it): a call that restarts the channel by an accepted
\* trigger or a sync edge ends as the same call made without an edge from
\* the state with phase = 0, rising, value = 0 and the new seed: integral
\* and breakpointPulse are not reset; and a latch carried through a restart
\* stays set, with no breakpoint firing, until a fall completes or a call
\* finds the trigger cable pulled.
C34_RestartKeepsLatch ==
    /\ RestartFrame
    /\ LatchCarriedCableIn =>
          slopeA.breakpointPulse /\ ~localsA.breakpointTriggered

\* a latch set in the first fall, carried through a restart, still set two
\* calls later in the fall of the following cycle, which is past the breakpoint
C34_Witness ==
    /\ LatchCarriedCableIn /\ ~RestartedA
    /\ ~slopeA.rising /\ slopeA.phase = Q(1, 2)
    /\ BeyondBreakpoint
    /\ slopeA.breakpointPulse /\ ~localsA.breakpointTriggered

\* C34 (as stated): the same, the latch staying set with no breakpoint
\* firing until a fall completes.
C34_LatchCarriedUntilCompletion ==
    /\ RestartFrame
    /\ LatchCarried =>
          slopeA.breakpointPulse /\ ~localsA.breakpointTriggered


UnplugCalled == Ticked /\ Len(trail) = 2
FrozenBefore == trail[2]

\* the state the last call started from with the eight fields of the
\* disconnected reset set, and nothing else
ResetOnly ==
    [Before EXCEPT !.prevTrigger = FALSE, !.phase = Zero, !.rising = TRUE,
                   !.value = Zero, !.derivative = Zero, !.integral = Zero,
                   !.endPulse = FALSE, !.breakpointPulse = FALSE]

\* the last call of processSlope for channel A, made again from the state s
\* with the trigger cable in at 0 V
ReplayPlugged(s, rnd) ==
    ProcessSlope(IdsA, s,
                 [active |-> Zero, end |-> Zero, breakpoint |-> Zero],
                 sampleTime, freezeAState, ChaosAmountA, currentTime, rnd,
                 params, [inputs EXCEPT !["A_TRIG_INPUT"] = Cable(Zero)])

\* C35: a call without the trigger cable ends as the same call made with the
\* cable in at 0 V from the state in which phase, rising, value, derivative,
\* integral, endPulse, breakpointPulse and prevTrigger are reset and nothing
\* else; unless the call sees a sync edge, the seed, syncPeriod and
\* lastSyncTime are as before it; the sync memory is the sync level of the
\* call; and the frozen flag is as before unless the button is pressed.
C35_DisconnectFrame ==
    (UnplugCalled /\ ~TrigA.connected) =>
        /\ slopeA = ReplayPlugged(ResetOnly, CHOOSE d \in EventDraws : TRUE).s
        /\ ~localsA.syncEdge =>
              /\ slopeA.chaosMod = Before.chaosMod
              /\ slopeA.syncPeriod = Before.syncPeriod
              /\ slopeA.lastSyncTime = Before.lastSyncTime
        /\ slopeA.prevSync = High(SyncA)
        /\ params["FREEZE_A_BUTTON_PARAM"] = Zero => freezeAState = FrozenBefore

\* the cable pulled from a frozen channel under way, the sync level held
\* high: the eight fields reset, the seed, the sync measurement and memory
\* and the frozen flag as they were
C35_Witness ==
    /\ UnplugCalled /\ ~TrigA.connected
    /\ freezeAState /\ FrozenBefore
    /\ Before.phase # Zero /\ Before.integral # Zero /\ Before.lastSyncTime # Zero
    /\ Before.prevSync /\ slopeA.prevSync
    /\ slopeA.phase = Zero /\ slopeA.rising /\ slopeA.integral = Zero
    /\ slopeA.chaosMod = Before.chaosMod
    /\ slopeA.lastSyncTime = Before.lastSyncTime


Combined == "aValue" \in DOMAIN probe

\* the float next to x, one unit in the last place up or down (0 stays 0)
F32Next(x, d) ==
    IF x[1] = 0 THEN x
    ELSE LET j == 24 - BitLength(x[1])
         IN  F32Lowest(x[1] * Pow2(j) + d, x[2] + j)

SidesOfC36 ==
    /\ probe.mix = F32Zero => probe.out.mixed = probe.aValue
    /\ probe.mix = F32One => probe.out.mixed = probe.bValue
    /\ probe.out.sum = F32Add(probe.out.min, probe.out.max)
    /\ probe.swapped.min = probe.out.min
    /\ probe.swapped.max = probe.out.max
    /\ probe.swapped.sum = probe.out.sum
    /\ probe.swapped.MIN_OUTPUT = probe.out.MIN_OUTPUT
    /\ probe.swapped.MAX_OUTPUT = probe.out.MAX_OUTPUT
    /\ probe.swapped.SUM_OUTPUT = probe.out.SUM_OUTPUT

\* C36 (as the code has it): for channel values A, B and a mix m in [0, 1],
\* mixed = A when m = 0 and mixed = B when m = 1; sum = min + max; min, max
\* and sum are the same with A and B exchanged; and mixed, a rounded float,
\* lies between min and max or one unit in the last place beyond them.
C36_CombinerRelations ==
    Combined =>
        /\ SidesOfC36
        /\ F32Le(F32Next(probe.out.min, -1), probe.out.mixed)
        /\ F32Le(probe.out.mixed, F32Next(probe.out.max, 1))

\* both channels at 3/64 and the mix at 0.15f: mixed comes out one unit in
\* the last place above both, and so does the MIX output above the MAX output
C36_Witness ==
    /\ Combined
    /\ probe.aValue = <<3, 6>> /\ probe.bValue = <<3, 6>>
    /\ probe.mix = <<5033165, 25>>
    /\ probe.out.max = <<3, 6>>
    /\ probe.out.mixed = F32Next(<<3, 6>>, 1)
    /\ probe.out.MIX_OUTPUT # probe.out.MAX_OUTPUT
    /\ F32Le(probe.out.MAX_OUTPUT, probe.out.MIX_OUTPUT)

\* C36 (as stated): the same with min <= mixed <= max.
C36_MixedBetween ==
    Combined =>
        /\ SidesOfC36
        /\ F32Le(probe.out.min, probe.out.mixed)
        /\ F32Le(probe.out.mixed, probe.out.max)


---------------------------------------------------------------------------
(* The claims about the Comparally window comparator.                      *)

ChannelNames == {"A", "B", "C", "D"}

\* The (hi, win, lo) flags of channel ch in the instance c
FlagsOf(c, ch) ==
    CASE ch = "A" -> [hi |-> c.aHi, win |-> c.aWin, lo |-> c.aLo]
      [] ch = "B" -> [hi |-> c.bHi, win |-> c.bWin, lo |-> c.bLo]
      [] ch = "C" -> [hi |-> c.cHi, win |-> c.cWin, lo |-> c.cLo]
      [] ch = "D" -> [hi |-> c.dHi, win |-> c.dWin, lo |-> c.dLo]

FlagCount(f) ==
    (IF f.hi THEN 1 ELSE 0) + (IF f.win THEN 1 ELSE 0) + (IF f.lo THEN 1 ELSE 0)

\* A call of Comparally::process has been made; WasComparally is the instance
\* that call found
Compared == comparally.locals # <<>>
WasComparally == trail[1]

\* C37: in every state at most one of the HI, WIN and LO flags of a channel is
\* true; a call of process that finds one of them true leaves exactly one of
\* them true, so that from the first call that sets a flag on exactly one is
\* true after every call; and the window size a call works with is never
\* below 0.0001, whatever the size knob and the size CV are.
C37_AtMostOneFlag ==
    \A ch \in ChannelNames :
        /\ FlagCount(FlagsOf(comparally, ch)) <= 1
        /\ Compared =>
            /\ FlagCount(FlagsOf(WasComparally, ch)) >= 1
                   => FlagCount(FlagsOf(comparally, ch)) = 1
            /\ QLe(MinSize, comparally.locals[ch].size)
            /\ comparally.outputs[ch \o "_HI_OUTPUT"] = Gate(FlagsOf(comparally, ch).hi)
            /\ comparally.outputs[ch \o "_WIN_OUTPUT"] = Gate(FlagsOf(comparally, ch).win)
            /\ comparally.outputs[ch \o "_LO_OUTPUT"] = Gate(FlagsOf(comparally, ch).lo)

\* Channel A goes from LO straight to HI in one call, while channel B works
\* with the floored size and channel C, in the dead band of its 0.1 V window,
\* has no flag set yet
C37_Witness ==
    /\ Compared
    /\ WasComparally.aLo /\ comparally.aHi /\ ~comparally.aLo /\ ~comparally.aWin
    /\ comparally.locals["B"].size = MinSize
    /\ comparally.params["A_SIZE_PARAM"] = Zero
    /\ comparally.locals["A"].size = MinSize


\* The input of a call (its locals l) lies in the band around the upper edge,
\* (hiEdge - H, hiEdge + H], or around the lower edge, [loEdge - H, loEdge + H)
InUpperBand(l) == QLt(QSub(l.hiEdge, H), l.in) /\ QLe(l.in, QAdd(l.hiEdge, H))
InLowerBand(l) == QLe(QSub(l.loEdge, H), l.in) /\ QLt(l.in, QAdd(l.loEdge, H))

\* The steps into HI, into LO and from HI or LO into WIN of channel ch in the
\* last call happened at the inputs runChannel allows them at
StepsOfC38(ch) ==
    LET was == FlagsOf(WasComparally, ch)
        now == FlagsOf(comparally, ch)
        l == comparally.locals[ch]
    IN  /\ l.hiEdge = QAdd(l.center, QMul(Q(1, 2), l.size))
        /\ l.loEdge = QSub(l.center, QMul(Q(1, 2), l.size))
        /\ (~was.hi /\ now.hi) => QLt(QAdd(l.hiEdge, H), l.in)
        /\ (~was.lo /\ now.lo) => QLt(l.in, QSub(l.loEdge, H))
        /\ (was.hi /\ now.win) => QLe(l.in, QSub(l.hiEdge, H))
        /\ (was.lo /\ now.win) => QLe(QAdd(l.loEdge, H), l.in)

\* C38: with H = 0.1 V, a channel becomes HI only on a call whose input is
\* above hiEdge + H and LO only on one whose input is below loEdge - H; it
\* goes from HI to WIN only at an input <= hiEdge - H and from LO to WIN only
\* at an input >= loEdge + H; and a call whose input lies in
\* (hiEdge - H, hiEdge + H] leaves the classification of a channel that is not
\* LO as it was, as a call whose input lies in [loEdge - H, loEdge + H) leaves
\* that of a channel that is not HI.
C38_Hysteresis ==
    Compared =>
        \A ch \in ChannelNames :
            LET was == FlagsOf(WasComparally, ch)
                now == FlagsOf(comparally, ch)
                l == comparally.locals[ch]
            IN  /\ StepsOfC38(ch)
                /\ (InUpperBand(l) /\ ~was.lo) => now = was
                /\ (InLowerBand(l) /\ ~was.hi) => now = was

\* Channel C (a 0.1 V window, narrower than 2 H) was LO, its input was in the
\* band around the upper edge on the call before and is there again, and the
\* call turns the channel to WIN, the input having reached loEdge + H
C38_Witness ==
    /\ Compared
    /\ WasComparally.locals # <<>>
    /\ InUpperBand(WasComparally.locals["C"])
    /\ InUpperBand(comparally.locals["C"])
    /\ WasComparally.cLo /\ comparally.cWin
    /\ QLe(QAdd(comparally.locals["C"].loEdge, H), comparally.locals["C"].in)
    /\ QLt(comparally.locals["C"].size, QMul(QInt(2), H))

\* C38 as stated: the steps happen at the inputs named, and the classification
\* does not change while the input stays in one of the two bands, whatever the
\* channel is
C38_BandHolds ==
    (Compared /\ WasComparally.locals # <<>>) =>
        \A ch \in ChannelNames :
            LET was == FlagsOf(WasComparally, ch)
                now == FlagsOf(comparally, ch)
                l == comparally.locals[ch]
                k == WasComparally.locals[ch]
            IN  /\ StepsOfC38(ch)
                /\ (InUpperBand(k) /\ InUpperBand(l)) => now = was
                /\ (InLowerBand(k) /\ InLowerBand(l)) => now = was


\* Exactly one of the WIN flags of the pair is true in the instance c
XorAB(c) == c.aWin # c.bWin
XorCD(c) == c.cWin # c.dWin

\* C39: a call of process toggles the A+B flip-flop exactly when the XOR of
\* aWin and bWin is true after the call and was false after the call before
\* (before the first call: false), and leaves it as it was otherwise; likewise
\* the C+D flip-flop with cWin and dWin; and the AND, OR and XOR outputs of a
\* pair are 10 V or 0 V by the AND, OR and XOR of the pair's two WIN flags as
\* the same call leaves them, the flip-flop output by the flip-flop.
C39_FlipFlopOnXorRise ==
    /\ comparally.abXorPrevious = XorAB(comparally)
    /\ comparally.cdXorPrevious = XorCD(comparally)
    /\ Compared =>
        /\ (comparally.abFlipFlop # WasComparally.abFlipFlop)
               <=> (XorAB(comparally) /\ ~XorAB(WasComparally))
        /\ (comparally.cdFlipFlop # WasComparally.cdFlipFlop)
               <=> (XorCD(comparally) /\ ~XorCD(WasComparally))
        /\ comparally.outputs["AB_AND_OUTPUT"] = Gate(comparally.aWin /\ comparally.bWin)
        /\ comparally.outputs["AB_OR_OUTPUT"] = Gate(comparally.aWin \/ comparally.bWin)
        /\ comparally.outputs["AB_XOR_OUTPUT"] = Gate(XorAB(comparally))
        /\ comparally.outputs["AB_FF_OUTPUT"] = Gate(comparally.abFlipFlop)
        /\ comparally.outputs["CD_AND_OUTPUT"] = Gate(comparally.cWin /\ comparally.dWin)
        /\ comparally.outputs["CD_OR_OUTPUT"] = Gate(comparally.cWin \/ comparally.dWin)
        /\ comparally.outputs["CD_XOR_OUTPUT"] = Gate(XorCD(comparally))
        /\ comparally.outputs["CD_FF_OUTPUT"] = Gate(comparally.cdFlipFlop)

\* The A+B flip-flop is toggled back to false by a second rise of the A/B XOR
\* in the call in which the C/D XOR stays true and the C+D flip-flop holds
C39_Witness ==
    /\ Compared
    /\ WasComparally.abFlipFlop /\ ~comparally.abFlipFlop
    /\ ~XorAB(WasComparally) /\ XorAB(comparally)
    /\ XorCD(WasComparally) /\ XorCD(comparally)
    /\ WasComparally.cdFlipFlop /\ comparally.cdFlipFlop
    /\ comparally.outputs["AB_FF_OUTPUT"] = Zero
    /\ comparally.outputs["CD_FF_OUTPUT"] = QInt(10)

=============================================================================
